---------------------------- MODULE Spec2Model ----------------------------
(***************************************************************************)
(* A model of the ufs peer-to-peer content-addressed file store.           *)
(*                                                                         *)
(*   Spec        the Kademlia routing table of one node (src/src/dht.rs):  *)
(*               RoutingTable::add_peer with its liveness PING.            *)
(*   SpecServer  the nodes' stores behind the RPC handlers of              *)
(*               src/src/server.rs, under the requests of arbitrary        *)
(*               clients.                                                  *)
(*   SpecCli     the upload and download commands of src/src/cli.rs;      *)
(*               SpecCliBusy is the same with more requests of other       *)
(*               clients in between.                                       *)
(*   SpecRouting the routing table of src/src/routing.rs under add_node.   *)
(*   SpecLookup  one perform_find_node or perform_find_value call of       *)
(*               src/src/node.rs in a network of answering and silent      *)
(*               peers; SpecLookupFair is the same on the small networks,  *)
(*               with the fairness of the lookup steps.                    *)
(*   SpecBootstrap  Node::bootstrap of a new node of src/src/node.rs.      *)
(*   SpecAnnounce   upload_file of src/src/cli.rs through nodes whose      *)
(*               routing tables hold peers; SpecUpload is the same with    *)
(*               requests to the node that fail.                           *)
(*                                                                         *)
(* Node ids are 32-byte values in the source.  Here an id is a natural     *)
(* number of IdBits = 2 * HalfBits bits; the "first 16 bytes" that         *)
(* dht.rs::xor_distance reads are the high HalfBits bits of the id.        *)
(***************************************************************************)
EXTENDS Integers, Sequences, FiniteSets, TLC

(***************************************************************************)
(* Bounds of the model and constants of the program.                       *)
(***************************************************************************)
\* half of the width of a node id, in bits (stands for the 128 bits of u128)
HalfBits == 3
\* the number of distinct fresh peers the workload offers to one bucket
NumFresh == 25
\* the number of arbitrary add_peer calls that follow the fresh peers
MaxFree == 1
\* dht.rs: pub const K_VALUE: usize = 20
K_VALUE == 20

IdBits == 2 * HalfBits
NumBuckets == IdBits

RECURSIVE Pow2(_)
Pow2(n) == IF n = 0 THEN 1 ELSE 2 * Pow2(n - 1)

NodeIds == 0 .. (Pow2(IdBits) - 1)

\* the id of the node that owns the routing table
LocalId == 5

NoPeer == [node_id |-> -1, address |-> -1]

(***************************************************************************)
(* dht.rs: xor_distance, bucket_index                                      *)
(***************************************************************************)
RECURSIVE Xor(_, _)
Xor(a, b) ==
    IF a = 0 THEN b
    ELSE IF b = 0 THEN a
    ELSE (((a % 2) + (b % 2)) % 2) + 2 * Xor(a \div 2, b \div 2)

\* the bytes 0..16 of an id: its high half
HighHalf(id) == id \div Pow2(HalfBits)

\* dist[i] = id1[i] ^ id2[i] for i in 0..16, read as a big-endian integer
xor_distance(id1, id2) == Xor(HighHalf(id1), HighHalf(id2))

RECURSIVE BitLen(_)
BitLen(n) == IF n = 0 THEN 0 ELSE 1 + BitLen(n \div 2)

\* u128::leading_zeros, on a value of HalfBits bits
leading_zeros(d) == HalfBits - BitLen(d)

bucket_index(local, node_id) ==
    LET distance == xor_distance(local, node_id)
    IN  IF distance = 0 THEN 0
        ELSE (IdBits - 1) - leading_zeros(distance)

(***************************************************************************)
(* VecDeque operations used by add_peer.  The front of the deque is        *)
(* element 1 of the sequence.                                              *)
(***************************************************************************)
push_front(bucket, p) == <<p>> \o bucket

pop_front(bucket) == Tail(bucket)

remove(bucket, pos) ==
    SubSeq(bucket, 1, pos - 1) \o SubSeq(bucket, pos + 1, Len(bucket))

\* the first index at which the bucket holds a peer that satisfies Same; 0 when
\* there is none (Iterator::position)
first_position(bucket, Same(_)) ==
    IF \E i \in 1 .. Len(bucket) : Same(bucket[i])
    THEN CHOOSE i \in 1 .. Len(bucket) :
            /\ Same(bucket[i])
            /\ \A j \in 1 .. (i - 1) : ~Same(bucket[j])
    ELSE 0

PositionWholeRecord(bucket, peer) ==
    LET Same(p) == p = peer IN first_position(bucket, Same)

\* bucket.iter().position(|p| p.node_id == peer.node_id)
position(bucket, peer) ==
    LET Same(p) == p.node_id = peer.node_id IN first_position(bucket, Same)

EmptyTable == [i \in 0 .. (NumBuckets - 1) |-> <<>>]

VARIABLES
    buckets,    \* RoutingTable.buckets of the node LocalId
    inflight,   \* the add_peer call suspended at ping_peer(..).await, or NoCall
    offered,    \* workload: how many fresh peers have been offered
    freeLeft,   \* workload: how many arbitrary add_peer calls are left
    allOk,      \* history: every liveness PING so far has succeeded
    last        \* history: what the last completed add_peer call did, and the
                \* bucket it found

rtVars == <<buckets, inflight, offered, freeLeft, allOk, last>>

VARIABLES
    chunks,     \* per node: Storage.chunks, chunk hash -> bytes
    metadata,   \* per node: Storage.metadata, file hash -> serialized FileInfo
    dht_values, \* per node: the values of STORE, key -> provider address
    tables,     \* per node: Node.routing_table
    resp,       \* the request last handled for an arbitrary client, and its response
    rpcLeft,    \* workload: how many requests of arbitrary clients are left
    cli,        \* the command line client: the command it runs and where it stands
    cmdsLeft,   \* workload: how many commands are left
    uploaded    \* history: file hash -> the bytes and the node of the uploads
                \* that returned Ok

storeVars ==
    <<chunks, metadata, dht_values, tables, resp, rpcLeft, cli, cmdsLeft, uploaded>>

VARIABLES
    rtable,     \* routing.rs: RoutingTable.buckets of the node LocalId
    rlast,      \* history: the last add_node call and the table it found
    addsLeft,   \* workload: how many add_node calls are left
    rfound      \* the last find_closest_nodes call and what it returned

routingVars == <<rtable, rlast, addsLeft, rfound>>

VARIABLES
    net,        \* the network a lookup runs in: who knows whom, who answers
    lk          \* the lookup of the node LocalId: its locals and where it stands

lookupVars == <<net, lk>>

VARIABLES
    boot        \* Node::bootstrap of a node that has just been created: its
                \* routing table, its locals and where it stands

bootVars == <<boot>>

VARIABLES
    ph          \* the PING handlers that run on the nodes, and who holds the
                \* lock of each node's routing table

pingVars == <<ph>>

VARIABLES
    fv          \* per node: the keys of the FIND_VALUE handlers that have found
                \* no value and wait for the lock of the routing table

findVars == <<fv>>

vars == <<rtVars, storeVars, routingVars, lookupVars, bootVars, pingVars, findVars>>

NoCall == [peer |-> NoPeer, probed |-> NoPeer, index |-> -1, before |-> <<>>]

(***************************************************************************)
(* dht.rs: RoutingTable::add_peer, up to the await of ping_peer.           *)
(* The result is the table and the call that is left suspended (NoCall     *)
(* when add_peer returned without a PING), with the branch taken.          *)
(***************************************************************************)
HasRoomOffByOne(bucket) == Len(bucket) <= K_VALUE

\* bucket.len() < K_VALUE
HasRoom(bucket) == Len(bucket) < K_VALUE

add_peer_call(table, local, peer) ==
    IF local = peer.node_id
    THEN [table |-> table, call |-> NoCall, op |-> "self", index |-> 0, before |-> <<>>]
    ELSE
      LET idx    == bucket_index(local, peer.node_id)
          bucket == table[idx]
          pos    == position(bucket, peer)
      IN  IF pos # 0
          THEN [table |-> [table EXCEPT ![idx] =
                              push_front(remove(bucket, pos), bucket[pos])],
                call  |-> NoCall,
                op    |-> "touch", index |-> idx, before |-> bucket]
          ELSE IF HasRoom(bucket)
          THEN [table |-> [table EXCEPT ![idx] = push_front(bucket, peer)],
                call  |-> NoCall,
                op    |-> "push", index |-> idx, before |-> bucket]
          ELSE \* if let Some(last_peer) = bucket.pop_front()
               [table |-> [table EXCEPT ![idx] = pop_front(bucket)],
                call  |-> [peer |-> peer, probed |-> Head(bucket), index |-> idx,
                           before |-> bucket],
                op    |-> "probe", index |-> idx, before |-> bucket]

\* dht.rs: ping_peer(peer), the PingRequest it sends to peer.address
ping_peer_request(peer) ==
    [peer |-> [node_id |-> peer.node_id, address |-> peer.address]]

(***************************************************************************)
(* dht.rs: RoutingTable::add_peer, from the result of ping_peer on.        *)
(***************************************************************************)
add_peer_resume(table, call, ok) ==
    IF ok
    THEN table
    ELSE [table EXCEPT ![call.index] = push_front(table[call.index], call.peer)]

\* add_peer run to completion with the given PING outcome
add_peer(table, local, peer, ok) ==
    LET r == add_peer_call(table, local, peer)
    IN  IF r.op = "probe" THEN add_peer_resume(r.table, r.call, ok) ELSE r.table

(***************************************************************************)
(* The workload.  Fresh peers all fall into the top bucket and arrive in   *)
(* a fixed order; after them come MaxFree arbitrary calls.                 *)
(***************************************************************************)
TopBit == Pow2(IdBits - 1)

FillId(i) == TopBit + i - 1

address_of(id) == id

other_address_of(id) == id + Pow2(IdBits)

Peer(id) == [node_id |-> id, address |-> address_of(id)]

FreePeers ==
    { Peer(LocalId),
      Peer(FillId(1)), Peer(FillId(2)), Peer(FillId(K_VALUE)), Peer(FillId(NumFresh)),
      [node_id |-> FillId(1), address |-> other_address_of(FillId(1))],
      Peer(Pow2(IdBits) - 1),
      Peer(LocalId + Pow2(HalfBits)),
      Peer(LocalId + 2 * Pow2(HalfBits)),
      Peer(LocalId + 1),
      Peer(LocalId + 2) }

RTInit ==
    /\ buckets = EmptyTable
    /\ inflight = NoCall
    /\ offered = 0
    /\ freeLeft = MaxFree
    /\ allOk = TRUE
    /\ last = [op |-> "none", peer |-> NoPeer, probed |-> NoPeer, index |-> 0,
               before |-> <<>>]

Call(peer) ==
    LET r == add_peer_call(buckets, LocalId, peer)
    IN  /\ buckets' = r.table
        /\ inflight' = r.call
        /\ last' = IF r.op = "probe" THEN last
                   ELSE [op |-> r.op, peer |-> peer, probed |-> NoPeer,
                         index |-> r.index, before |-> r.before]

\* add_peer(p) for the next fresh peer p
AddFresh ==
    /\ inflight = NoCall
    /\ offered < NumFresh
    /\ Call(Peer(FillId(offered + 1)))
    /\ offered' = offered + 1
    /\ UNCHANGED <<freeLeft, allOk>>
    /\ UNCHANGED <<storeVars, routingVars, lookupVars, bootVars, pingVars, findVars>>

\* add_peer(p) for an arbitrary peer p
AddAny ==
    /\ inflight = NoCall
    /\ freeLeft > 0
    /\ \E p \in FreePeers : Call(p)
    /\ freeLeft' = freeLeft - 1
    /\ UNCHANGED <<offered, allOk>>
    /\ UNCHANGED <<storeVars, routingVars, lookupVars, bootVars, pingVars, findVars>>

\* ping_peer(last_peer) returns Ok(_) or Err(_) and add_peer goes on
PingDone ==
    /\ inflight # NoCall
    /\ \E ok \in BOOLEAN :
          /\ buckets' = add_peer_resume(buckets, inflight, ok)
          /\ allOk' = (allOk /\ ok)
          /\ last' = [op     |-> IF ok THEN "discard" ELSE "evict",
                      peer   |-> inflight.peer,
                      probed |-> inflight.probed,
                      index  |-> inflight.index,
                      before |-> inflight.before]
    /\ inflight' = NoCall
    /\ UNCHANGED <<offered, freeLeft>>
    /\ UNCHANGED <<storeVars, routingVars, lookupVars, bootVars, pingVars, findVars>>

Next == AddFresh \/ AddAny \/ PingDone

(***************************************************************************)
(* Bytes, digests and serialization.  A byte of the model is a bit, so a   *)
(* byte string is a sequence over {0, 1}.  SHA-256 is modelled as an       *)
(* injective function from byte strings to numbers (no collisions): the    *)
(* bijective base-2 numeral of the string.  A digest that is written into  *)
(* a byte string takes DigestBits bytes.                                   *)
(***************************************************************************)
\* cli.rs: let chunk_size = 1024 * 256, scaled down
ChunkSize == 2
\* the number of nodes
NumNodes == 2
\* the number of requests that arbitrary clients send to the servers
MaxRpc == 2
\* the number of commands the command line client runs
MaxCmds == 2

Nodes == 1 .. NumNodes

Bit == {0, 1}

RECURSIVE hash(_)
hash(data) ==
    IF data = <<>> THEN 0
    ELSE 2 * hash(SubSeq(data, 1, Len(data) - 1)) + data[Len(data)] + 1

\* the big-endian bytes of n, in a field of w bytes
to_be_bytes(n, w) == [i \in 1 .. w |-> (n \div Pow2(w - i)) % 2]

RECURSIVE from_be_bytes(_)
from_be_bytes(b) ==
    IF b = <<>> THEN 0
    ELSE 2 * from_be_bytes(SubSeq(b, 1, Len(b) - 1)) + b[Len(b)]

\* the widths of the fields of a serialized FileInfo
NameBits == 1
\* the longest file of the workload has one byte more than a chunk
MaxFileLen == ChunkSize + 1
SizeBits == BitLen(MaxFileLen)
CountBits == BitLen(MaxFileLen)
DigestBits == ChunkSize + 1
HeaderBits == NameBits + SizeBits + CountBits

RECURSIVE serialize_hashes(_)
serialize_hashes(hashes) ==
    IF hashes = <<>> THEN <<>>
    ELSE to_be_bytes(Head(hashes), DigestBits) \o serialize_hashes(Tail(hashes))

\* bincode::serialize(&FileInfo {name, size, chunk_hashes})
serialize(m) ==
    to_be_bytes(m.name, NameBits)
        \o to_be_bytes(m.size, SizeBits)
        \o to_be_bytes(Len(m.chunk_hashes), CountBits)
        \o serialize_hashes(m.chunk_hashes)

\* bincode::deserialize: <<m>>, or <<>> when the bytes end before the
\* FileInfo does; bytes after the FileInfo are allowed and ignored
deserialize(b) ==
    IF Len(b) < HeaderBits THEN <<>>
    ELSE
      LET count == from_be_bytes(SubSeq(b, NameBits + SizeBits + 1, HeaderBits))
      IN  IF Len(b) < HeaderBits + count * DigestBits THEN <<>>
          ELSE << [name |-> from_be_bytes(SubSeq(b, 1, NameBits)),
                   size |-> from_be_bytes(SubSeq(b, NameBits + 1, NameBits + SizeBits)),
                   chunk_hashes |->
                       [i \in 1 .. count |->
                           from_be_bytes(SubSeq(b, HeaderBits + (i - 1) * DigestBits + 1,
                                                HeaderBits + i * DigestBits))]] >>

\* data.chunks_exact(chunk_size): the chunks of full size only
RECURSIVE ChunksExact(_, _)
ChunksExact(data, chunk_size) ==
    IF Len(data) < chunk_size THEN <<>>
    ELSE <<SubSeq(data, 1, chunk_size)>>
            \o ChunksExact(SubSeq(data, chunk_size + 1, Len(data)), chunk_size)

\* data.chunks(chunk_size)
RECURSIVE data_chunks(_, _)
data_chunks(data, chunk_size) ==
    IF Len(data) = 0 THEN <<>>
    ELSE IF Len(data) <= chunk_size THEN <<data>>
    ELSE <<SubSeq(data, 1, chunk_size)>>
            \o data_chunks(SubSeq(data, chunk_size + 1, Len(data)), chunk_size)

\* chunks.iter().map(|c| hash(c))
hashes_of(cs) == [i \in 1 .. Len(cs) |-> hash(cs[i])]

\* cli.rs upload_file: the FileInfo of a file, and the file hash
FileName == 1

file_info(data) ==
    [name |-> FileName,
     size |-> Len(data),
     chunk_hashes |-> hashes_of(data_chunks(data, ChunkSize))]

file_hash_of(m) == hash(serialize(m))

(***************************************************************************)
(* storage.rs: Storage.  A tree is a function from the keys it holds.      *)
(* An Option is a sequence of at most one element.                         *)
(***************************************************************************)
EmptyTree == [k \in {} |-> <<>>]

\* sled Tree::insert
insert(tree, key, value) ==
    [k \in DOMAIN tree \cup {key} |-> IF k = key THEN value ELSE tree[k]]

\* sled Tree::get
get(tree, key) == IF key \in DOMAIN tree THEN <<tree[key]>> ELSE <<>>

\* Storage::store_chunk: Ok(()) with the chunk inserted, or the Err of sled
\* with the tree as it was; io is whether the insert of sled succeeds
store_chunk(tree, h, data, io) ==
    IF io THEN [tree |-> insert(tree, h, data), ok |-> TRUE]
    ELSE [tree |-> tree, ok |-> FALSE]

get_chunk(tree, h) == get(tree, h)

\* Storage::store_metadata: Ok(()) with the serialized FileInfo inserted, or
\* the Err of bincode or of sled with the tree as it was; io is whether both
\* succeed
store_metadata(tree, h, m, io) ==
    IF io THEN [tree |-> insert(tree, h, serialize(m)), ok |-> TRUE]
    ELSE [tree |-> tree, ok |-> FALSE]

get_metadata(tree, h) ==
    IF get(tree, h) = <<>> THEN <<>> ELSE deserialize(get(tree, h)[1])

\* a store_value that keeps the value a key already has
StoreKeepsFirst(tree, key, value) ==
    IF get(tree, key) # <<>> THEN tree ELSE insert(tree, key, value)

\* Storage::store_value and Storage::get_value: the value last stored for a key
store_value(tree, key, value) == insert(tree, key, value)

get_value(tree, key) == get(tree, key)

(***************************************************************************)
(* dht.rs: RoutingTable::find_closest_peers                                *)
(***************************************************************************)
RECURSIVE flat_map(_, _)
flat_map(table, i) ==
    IF i >= NumBuckets THEN <<>> ELSE table[i] \o flat_map(table, i + 1)

\* a stable insertion: after every element whose key is not larger
RECURSIVE insert_by_key(_, _, _)
insert_by_key(sorted, p, target) ==
    IF sorted = <<>> THEN <<p>>
    ELSE IF xor_distance(Head(sorted).node_id, target) <= xor_distance(p.node_id, target)
    THEN <<Head(sorted)>> \o insert_by_key(Tail(sorted), p, target)
    ELSE <<p>> \o sorted

\* peers.sort_by_key(|(dist, _)| *dist), a stable sort
RECURSIVE sort_by_key(_, _)
sort_by_key(peers, target) ==
    IF peers = <<>> THEN <<>>
    ELSE insert_by_key(sort_by_key(SubSeq(peers, 1, Len(peers) - 1), target),
                       peers[Len(peers)], target)

take(s, n) == SubSeq(s, 1, IF Len(s) < n THEN Len(s) ELSE n)

find_closest_peers(table, target_id) ==
    take(sort_by_key(flat_map(table, 0), target_id), K_VALUE)

(***************************************************************************)
(* Nodes.  An address is a number (the port); no node listens at           *)
(* NoAddress.  A 32-byte key is read as a node id by its low IdBits bits.  *)
(***************************************************************************)
NoAddress == 0

node_address(n) == n

Listening(address) == address \in Nodes

AddressBits == BitLen(NumNodes)

\* node.rs Node::new: id = hash(address.as_bytes())
as_node_id(key) == key % Pow2(IdBits)

node_id_of(n) == as_node_id(hash(to_be_bytes(node_address(n), AddressBits)))

Idle ==
    [pc |-> "idle", cmd |-> "none", node |-> 0, data |-> <<>>, file_hash |-> 0,
     todo_chunks |-> <<>>, todo_hashes |-> <<>>, peers |-> <<>>, provider |-> NoAddress,
     output |-> <<>>, result |-> "none", store_failed |-> FALSE]

NoResponse ==
    [rpc |-> "none", node |-> 0, key |-> 0, data |-> <<>>, success |-> FALSE,
     was_absent |-> FALSE, peer |-> NoPeer, had_room |-> FALSE]

\* Node::new for every node; r requests of arbitrary clients and c commands
\* of the command line client are to come
NodesInit(r, c) ==
    /\ chunks = [n \in Nodes |-> EmptyTree]
    /\ metadata = [n \in Nodes |-> EmptyTree]
    /\ dht_values = [n \in Nodes |-> EmptyTree]
    /\ tables = [n \in Nodes |-> EmptyTable]
    /\ resp = NoResponse
    /\ rpcLeft = r
    /\ cli = Idle
    /\ cmdsLeft = c
    /\ uploaded = EmptyTree

(***************************************************************************)
(* routing.rs: the second routing table of the repository.  A Node is a    *)
(* record of an id and an address; a Bucket is a Vec, whose back is the    *)
(* last element of the sequence.                                           *)
(***************************************************************************)
\* routing.rs: const BUCKET_SIZE: usize = 20
BUCKET_SIZE == 20
\* the number of add_node calls of the workload
MaxAdds == 3

\* the width of usize, scaled with the width of an id
UsizeBits == 2 * IdBits

\* result[i] = a[i] ^ b[i] for i in 0..32
routing_xor_distance(a, b) == Xor(a, b)

\* the number of zero bits before the first one bit; all the bits of a zero id
leading_zeroes(id) == IdBits - BitLen(id)

\* ID_LENGTH_BITS - 1 - leading_zeroes(..) in usize arithmetic.  For the id
\* of the table itself the subtraction goes below zero: a build with overflow
\* checks panics there, a build without them wraps around, and then the
\* index is out of the bounds of the buckets.
routing_bucket_index(local, id) ==
    (NumBuckets - 1 - leading_zeroes(routing_xor_distance(local, id)))
        % Pow2(UsizeBits)

\* bucket.nodes.iter_mut().find(|n| n.id == node.id)
find_existing(bucket, node) ==
    LET Same(n) == n.id = node.id IN first_position(bucket, Same)

\* add_node: the table afterwards, and whether the call panicked
add_node(table, local, node) ==
    LET idx == routing_bucket_index(local, node.id)
    IN  IF idx >= NumBuckets
        THEN [table |-> table, panicked |-> TRUE]
        ELSE LET bucket == table[idx]
                 pos    == find_existing(bucket, node)
             IN  IF pos # 0
                 THEN [table |-> [table EXCEPT ![idx] = [bucket EXCEPT ![pos] = node]],
                       panicked |-> FALSE]
                 ELSE IF Len(bucket) < BUCKET_SIZE
                 THEN [table |-> [table EXCEPT ![idx] = Append(bucket, node)],
                       panicked |-> FALSE]
                 ELSE [table |-> table, panicked |-> FALSE]

RoutingNode(id) == [id |-> id, addr |-> address_of(id)]

\* the nodes of the workload: the table's own id, ids that differ from it in
\* the low half only, in the high half only, and in both
RoutingNodes ==
    { RoutingNode(LocalId),
      RoutingNode(LocalId + 1),
      RoutingNode(LocalId + Pow2(HalfBits)),
      RoutingNode(Pow2(IdBits) - 1),
      RoutingNode(FillId(1)),
      [id |-> FillId(1), addr |-> other_address_of(FillId(1))] }

NoAddNode ==
    [op |-> "none", node |-> RoutingNode(LocalId), before |-> EmptyTable,
     panicked |-> FALSE]

NoFind ==
    [op |-> "none", table |-> EmptyTable, target |-> 0, count |-> 0, result |-> <<>>]

\* RoutingTable::new; n add_node calls are to come
RoutingInit(n) ==
    /\ rtable = EmptyTable
    /\ rlast = NoAddNode
    /\ addsLeft = n
    /\ rfound = NoFind

\* add_node(node) for an arbitrary node
AddNode ==
    /\ addsLeft > 0
    /\ \E node \in RoutingNodes :
          LET r == add_node(rtable, LocalId, node)
          IN  /\ rtable' = r.table
              /\ rlast' = [op |-> "add_node", node |-> node, before |-> rtable,
                           panicked |-> r.panicked]
    /\ addsLeft' = addsLeft - 1
    /\ UNCHANGED rfound
    /\ UNCHANGED <<rtVars, storeVars, lookupVars, bootVars, pingVars, findVars>>

(***************************************************************************)
(* routing.rs: find_closest_nodes.  The heap is a BinaryHeap of            *)
(* Reverse((distance, node)): its greatest element, the one that pop()     *)
(* takes, is the pair that is least by distance and then by node id.  The  *)
(* heap is the set of the nodes it holds.                                  *)
(***************************************************************************)
\* (distance, node) < (distance, node) of two nodes, for a target
PairLess(a, b, target) ==
    \/ routing_xor_distance(a.id, target) < routing_xor_distance(b.id, target)
    \/ /\ routing_xor_distance(a.id, target) = routing_xor_distance(b.id, target)
       /\ a.id < b.id

\* BinaryHeap::pop on the heap of Reverse: the least pair leaves
heap_pop(heap, target) ==
    heap \ {CHOOSE a \in heap : \A b \in heap \ {a} : PairLess(a, b, target)}

\* the loop over the nodes of the buckets: push, then pop when the heap has
\* more than count elements
RECURSIVE scan_nodes(_, _, _, _)
scan_nodes(heap, nodes, target, count) ==
    IF nodes = <<>> THEN heap
    ELSE LET pushed == heap \cup {Head(nodes)}
         IN  scan_nodes(IF Cardinality(pushed) > count
                        THEN heap_pop(pushed, target) ELSE pushed,
                        Tail(nodes), target, count)

\* BinaryHeap::into_sorted_vec: ascending in the order of Reverse, that is
\* from the greatest pair to the least
RECURSIVE into_sorted_vec(_, _)
into_sorted_vec(heap, target) ==
    IF heap = {} THEN <<>>
    ELSE LET a == CHOOSE a \in heap : \A b \in heap \ {a} : PairLess(b, a, target)
         IN  <<a>> \o into_sorted_vec(heap \ {a}, target)

find_closest_nodes(table, target, count) ==
    into_sorted_vec(scan_nodes({}, flat_map(table, 0), target, count), target)

RoutingTargets == {0, LocalId, Pow2(IdBits) - 1}

\* MaxAdds nodes fit into a table of this workload
RoutingCounts == 0 .. MaxAdds

\* find_closest_nodes(target, count) for an arbitrary target and count
FindClosestNodes ==
    /\ \E target \in RoutingTargets, count \in RoutingCounts :
          rfound' = [op |-> "find_closest_nodes", table |-> rtable,
                     target |-> target, count |-> count,
                     result |-> find_closest_nodes(rtable, target, count)]
    /\ UNCHANGED <<rtable, rlast, addsLeft>>
    /\ UNCHANGED <<rtVars, storeVars, lookupVars, bootVars, pingVars, findVars>>

(***************************************************************************)
(* node.rs: the state of a lookup before it starts, and a network in which *)
(* no lookup runs.                                                         *)
(***************************************************************************)
NoNetwork ==
    [table |-> <<>>, knows |-> <<>>, down |-> {}, holders |-> {}, target |-> 0]

\* returned is what the call returns: the peers of perform_find_node; value
\* is the Option of perform_find_value.  history has one entry for every wave.
NoLookup ==
    [pc |-> "idle", kind |-> "none", closest_peers |-> <<>>, queried_peers |-> {},
     peers_to_query |-> <<>>, results |-> <<>>, returned |-> <<>>, value |-> <<>>,
     waves |-> 0, history |-> <<>>, sent |-> <<>>]

LookupIdle ==
    /\ net = NoNetwork
    /\ lk = NoLookup

\* no node is bootstrapping
NoBoot ==
    [pc |-> "off", local |-> 0, addr |-> NoAddress, table |-> <<>>, pong |-> -1,
     queried_peers |-> {}, returned |-> <<>>, result |-> "none", events |-> <<>>]

BootIdle == boot = NoBoot

\* a PING handler that has not been called
NoHandler ==
    [pc |-> "idle", node |-> 0, peer |-> NoPeer, before |-> <<>>, after |-> <<>>,
     pong |-> -1]

\* no add_peer runs on the table of the node
NoAdder == [pc |-> "idle", call |-> NoCall, handler |-> 0]

\* the holder of a lock that is an add_peer and not a PING handler
ByAddPeer == MaxRpc + 1

\* no PING handler runs, no add_peer runs and no lock is held
PingIdle ==
    ph = [lock |-> [n \in Nodes |-> 0], call |-> [h \in 1 .. MaxRpc |-> NoHandler],
          adder |-> [n \in Nodes |-> NoAdder]]

\* no FIND_VALUE handler waits
FindIdle == fv = [n \in Nodes |-> <<>>]

Init == RTInit /\ NodesInit(0, 0) /\ RoutingInit(0) /\ LookupIdle /\ BootIdle /\ PingIdle /\ FindIdle

Spec == Init /\ [][Next]_vars

(***************************************************************************)
(* server.rs: the handlers of PeerServer, on the state of the node that    *)
(* serves the request.                                                     *)
(***************************************************************************)
\* upload_chunk: self.node.store_chunk(&req.chunk_hash, &req.chunk_data).
\* Node::store_chunk (node.rs 213-217) returns nothing and the handler
\* answers success: true whatever the store returned
upload_chunk(tree, chunk_hash, chunk_data, io) ==
    [tree |-> store_chunk(tree, chunk_hash, chunk_data, io).tree, success |-> TRUE]

\* initiate_upload: self.node.store_metadata(&req.file_hash, &FileInfo {..}).
\* Node::store_metadata (node.rs 219-223) returns nothing and the handler
\* answers success: true whatever the store returned
initiate_upload(tree, file_hash, m, io) ==
    [tree |-> store_metadata(tree, file_hash, m, io).tree, success |-> TRUE]

\* ping: add_peer(peer) is called on the locked table, but add_peer is an
\* async fn and the future it returns is dropped at the end of the statement
\* without an await: the body of add_peer never runs.  The response carries
\* the id of the node.
ping(table, local, peer) == [table |-> table, node_id |-> local]

\* store: self.node.storage.store_value(&req.key, &req.value)
store(tree, key, value) ==
    [tree |-> store_value(tree, key, value), success |-> TRUE]

\* get_chunk: the chunk, or <<>> for Status::not_found
serve_get_chunk(tree, chunk_hash) == get_chunk(tree, chunk_hash)

\* get_file_metadata: the serialized FileInfo, or <<>> for Status::not_found
get_file_metadata(tree, file_hash) ==
    LET m == get_metadata(tree, file_hash)
    IN  IF m = <<>> THEN <<>> ELSE <<serialize(m[1])>>

\* a FIND_NODE that never returns a peer
FindNodeNobody(table, target) == <<>>

\* find_node: the closest peers of the node's routing table
find_node(table, target_id) == find_closest_peers(table, target_id)

\* find_value: Result::Value(value) or Result::ClosestPeers(peers)
\* find_value, lines 72-90: the else branch, which takes the lock of the
\* routing table after get_value has found nothing
find_value_peers(table, key) ==
    [value |-> <<>>, peers |-> find_closest_peers(table, as_node_id(key))]

find_value(values, table, key) ==
    IF get_value(values, key) # <<>>
    THEN [value |-> get_value(values, key), peers |-> <<>>]
    ELSE find_value_peers(table, key)

(***************************************************************************)
(* The requests of arbitrary clients: any chunk under any hash, any        *)
(* metadata under any file hash, any provider for any key.                 *)
(***************************************************************************)
\* the files of the workload: empty, one byte less than a chunk, a chunk, and
\* one byte more
FileOfLen(n) == [i \in 1 .. n |-> IF i % 3 = 2 THEN 0 ELSE 1]

Files == {FileOfLen(n) : n \in {0, ChunkSize - 1, ChunkSize, ChunkSize + 1}}

FileHashes == {file_hash_of(file_info(d)) : d \in Files}

RawChunks == {<<0>>, <<1>>}

RawFiles == {<<>>, <<1>>}

Addresses == Nodes \cup {NoAddress}

Response(rpc, n, key, data, success, was_absent) ==
    [rpc |-> rpc, node |-> n, key |-> key, data |-> data, success |-> success,
     was_absent |-> was_absent, peer |-> NoPeer, had_room |-> FALSE]

RpcUploadChunk ==
    /\ rpcLeft > 0
    /\ \E n \in Nodes, d \in RawChunks, e \in RawChunks, io \in BOOLEAN :
          LET r == upload_chunk(chunks[n], hash(e), d, io)
          IN  /\ chunks' = [chunks EXCEPT ![n] = r.tree]
              /\ resp' = Response("upload_chunk", n, hash(e), d, r.success,
                                  get_chunk(chunks[n], hash(e)) = <<>>)
    /\ rpcLeft' = rpcLeft - 1
    /\ UNCHANGED <<metadata, dht_values, tables, cli, cmdsLeft, uploaded>>
    /\ UNCHANGED <<rtVars, routingVars, lookupVars, bootVars, pingVars, findVars>>

RpcInitiateUpload ==
    /\ rpcLeft > 0
    /\ \E n \in Nodes, d \in RawFiles, e \in RawFiles, io \in BOOLEAN :
          LET f == file_hash_of(file_info(e))
              r == initiate_upload(metadata[n], f, file_info(d), io)
          IN  /\ metadata' = [metadata EXCEPT ![n] = r.tree]
              /\ resp' = Response("initiate_upload", n, f, serialize(file_info(d)),
                                  r.success, get(metadata[n], f) = <<>>)
    /\ rpcLeft' = rpcLeft - 1
    /\ UNCHANGED <<chunks, dht_values, tables, cli, cmdsLeft, uploaded>>
    /\ UNCHANGED <<rtVars, routingVars, lookupVars, bootVars, pingVars, findVars>>

RpcStore ==
    /\ rpcLeft > 0
    /\ \E n \in Nodes, k \in FileHashes, v \in Addresses :
          LET r == store(dht_values[n], k, v)
          IN  /\ dht_values' = [dht_values EXCEPT ![n] = r.tree]
              /\ resp' = Response("store", n, k, <<v>>, r.success,
                                  get_value(dht_values[n], k) = <<>>)
    /\ rpcLeft' = rpcLeft - 1
    /\ UNCHANGED <<chunks, metadata, tables, cli, cmdsLeft, uploaded>>
    /\ UNCHANGED <<rtVars, routingVars, lookupVars, bootVars, pingVars, findVars>>

\* the senders of PING: a peer outside the network, and the nodes themselves
PingSenders ==
    {Peer(FillId(1)), Peer(FillId(2))}
        \cup {[node_id |-> node_id_of(n), address |-> node_address(n)] : n \in Nodes}

RpcPing ==
    /\ rpcLeft > 0
    /\ \E n \in Nodes, sender \in PingSenders :
          LET r      == ping(tables[n], node_id_of(n), sender)
              bucket == tables[n][bucket_index(node_id_of(n), sender.node_id)]
          IN  /\ tables' = [tables EXCEPT ![n] = r.table]
              /\ resp' = [Response("ping", n, r.node_id, <<>>, TRUE,
                                    position(bucket, sender) = 0)
                             EXCEPT !.peer = sender, !.had_room = HasRoom(bucket)]
    /\ rpcLeft' = rpcLeft - 1
    /\ UNCHANGED <<chunks, metadata, dht_values, cli, cmdsLeft, uploaded>>
    /\ UNCHANGED <<rtVars, routingVars, lookupVars, bootVars, pingVars, findVars>>

RpcGetChunk ==
    /\ rpcLeft > 0
    /\ \E n \in Nodes, e \in RawChunks :
          LET r == serve_get_chunk(chunks[n], hash(e))
          IN  resp' = Response("get_chunk", n, hash(e),
                               IF r = <<>> THEN <<>> ELSE r[1], r # <<>>, r = <<>>)
    /\ rpcLeft' = rpcLeft - 1
    /\ UNCHANGED <<chunks, metadata, dht_values, tables, cli, cmdsLeft, uploaded>>
    /\ UNCHANGED <<rtVars, routingVars, lookupVars, bootVars, pingVars, findVars>>

(***************************************************************************)
(* server.rs: the handlers that only read.  The state of a node is the     *)
(* record of its three keyspaces and its routing table; a handler gives    *)
(* the state it leaves and its response (found is FALSE for               *)
(* Status::not_found and for a FIND_VALUE answered with peers).            *)
(***************************************************************************)
NodeState(n) ==
    [chunks |-> chunks[n], metadata |-> metadata[n], values |-> dht_values[n],
     table |-> tables[n]]

\* sled Tree::iter goes through a tree in the order of the bytes of its
\* keys.  The keys are SHA-256 digests, and hash, which stands for SHA-256,
\* is injective but does not keep the order of the digests: the order of
\* the keys is an input, any enumeration of the keys of the tree.
key_orders(tree) ==
    {order \in [1 .. Cardinality(DOMAIN tree) -> DOMAIN tree] :
        \A i, j \in 1 .. Cardinality(DOMAIN tree) : order[i] = order[j] => i = j}

\* sled Tree::iter: the values of a tree in the order of their keys
tree_values(tree, order) == [i \in 1 .. Len(order) |-> tree[order[i]]]

\* Storage::get_all_metadata
get_all_metadata(tree, order) ==
    [i \in 1 .. Len(order) |-> deserialize(tree_values(tree, order)[i])[1]]

\* list_peers: buckets.iter().flatten().map(|p| p.address.clone())
list_peers(table) ==
    [i \in 1 .. Len(flat_map(table, 0)) |-> flat_map(table, 0)[i].address]

\* list_files: the FileInfo of every metadata entry
list_files(tree, order) == get_all_metadata(tree, order)

ReadRpcs ==
    {"find_node", "find_value", "get_chunk", "get_file_metadata", "list_peers",
     "list_files"}

\* a GET_CHUNK that takes the chunk out of the store
ReadRequestConsumes(rpc, st, key, order) ==
    [state |-> IF rpc = "get_chunk"
               THEN [st EXCEPT !.chunks = [h \in DOMAIN st.chunks \ {key} |->
                                                st.chunks[h]]]
               ELSE st,
     found |-> rpc = "get_chunk" /\ serve_get_chunk(st.chunks, key) # <<>>,
     data  |-> <<>>]

\* the six handlers: none of them writes to a keyspace or to the table
read_request(rpc, st, key, order) ==
    LET value == find_value(st.values, st.table, key)
    IN  [state |-> st,
         found |->
             CASE rpc = "find_value" -> value.value # <<>>
               [] rpc = "get_chunk" -> serve_get_chunk(st.chunks, key) # <<>>
               [] rpc = "get_file_metadata" -> get_file_metadata(st.metadata, key) # <<>>
               [] OTHER -> TRUE,
         data  |->
             CASE rpc = "find_node" -> find_node(st.table, as_node_id(key))
               [] rpc = "find_value" ->
                      IF value.value # <<>> THEN value.value ELSE value.peers
               [] rpc = "get_chunk" -> serve_get_chunk(st.chunks, key)
               [] rpc = "get_file_metadata" -> get_file_metadata(st.metadata, key)
               [] rpc = "list_peers" -> list_peers(st.table)
               [] OTHER -> list_files(st.metadata, order)]

\* the keyspace that the handler reads has no entry for the key
read_absent(rpc, st, key) ==
    CASE rpc = "find_value" -> get_value(st.values, key) = <<>>
      [] rpc = "get_chunk" -> get_chunk(st.chunks, key) = <<>>
      [] rpc = "get_file_metadata" -> get(st.metadata, key) = <<>>
      [] OTHER -> FALSE

\* the keys of the read requests: file hashes and chunk hashes
ReadKeys == FileHashes \cup {hash(e) : e \in RawChunks}

\* was_absent: the keyspace read has no entry for the key
RpcRead ==
    /\ rpcLeft > 0
    /\ \E n \in Nodes, rpc \in ReadRpcs, key \in ReadKeys :
       \E order \in key_orders(metadata[n]) :
          LET r == read_request(rpc, NodeState(n), key, order)
          IN  /\ chunks' = [chunks EXCEPT ![n] = r.state.chunks]
              /\ metadata' = [metadata EXCEPT ![n] = r.state.metadata]
              /\ dht_values' = [dht_values EXCEPT ![n] = r.state.values]
              /\ tables' = [tables EXCEPT ![n] = r.state.table]
              /\ resp' = Response(rpc, n, key, r.data, r.found,
                                  read_absent(rpc, NodeState(n), key))
    /\ rpcLeft' = rpcLeft - 1
    /\ UNCHANGED <<cli, cmdsLeft, uploaded>>
    /\ UNCHANGED <<rtVars, routingVars, lookupVars, bootVars, pingVars, findVars>>

\* server.rs 59-78: FIND_VALUE for a key without a value, when another task
\* holds the lock of the routing table: get_value has returned None (66)
\* and the handler waits at routing_table.lock().await; other requests,
\* further FIND_VALUEs among them, are handled meanwhile
RpcFindValueWait ==
    /\ rpcLeft > 0
    /\ \E n \in Nodes, key \in ReadKeys :
          /\ get_value(dht_values[n], key) = <<>>
          /\ fv' = [fv EXCEPT ![n] = Append(@, key)]
    /\ rpcLeft' = rpcLeft - 1
    /\ UNCHANGED <<chunks, metadata, dht_values, tables, resp, cli, cmdsLeft, uploaded>>
    /\ UNCHANGED <<rtVars, routingVars, lookupVars, bootVars, pingVars>>

\* server.rs 74-90: one of the waiting handlers gets the lock and answers
\* with the closest peers of the table as it is now; the value store is not
\* read again
RpcFindValueAnswer ==
    /\ \E n \in Nodes :
       \E i \in 1 .. Len(fv[n]) :
          /\ resp' = Response("find_value", n, fv[n][i],
                              find_value_peers(tables[n], fv[n][i]).peers,
                              FALSE, TRUE)
          /\ fv' = [fv EXCEPT ![n] = remove(@, i)]
    /\ UNCHANGED <<chunks, metadata, dht_values, tables, rpcLeft, cli, cmdsLeft, uploaded>>
    /\ UNCHANGED <<rtVars, routingVars, lookupVars, bootVars, pingVars>>

(***************************************************************************)
(* cli.rs: upload_file.  Every request is one step; a failed request       *)
(* ends the command with Err.                                              *)
(***************************************************************************)
\* lines 56-80: split and hash the file, then INITIATE_UPLOAD at the node;
\* io is whether the store of the node succeeds, and store_failed records
\* that a store of this upload has failed
UploadInitiate(io) ==
    /\ cli.pc \in {"idle", "done"}
    /\ cmdsLeft > 0
    /\ \E n \in Nodes, data \in Files :
          LET cs == data_chunks(data, ChunkSize)
              m  == [name |-> FileName, size |-> Len(data), chunk_hashes |-> hashes_of(cs)]
              f  == hash(serialize(m))
              r  == initiate_upload(metadata[n], f, m, io)
          IN  /\ metadata' = [metadata EXCEPT ![n] = r.tree]
              /\ cli' = [Idle EXCEPT !.pc = "upload_chunks", !.cmd = "upload",
                                     !.node = n, !.data = data, !.file_hash = f,
                                     !.todo_chunks = cs, !.todo_hashes = hashes_of(cs),
                                     !.store_failed = ~io]
    /\ cmdsLeft' = cmdsLeft - 1
    /\ UNCHANGED <<chunks, dht_values, tables, resp, rpcLeft, uploaded>>
    /\ UNCHANGED <<rtVars, routingVars, lookupVars, bootVars, pingVars, findVars>>

CliUploadInitiate == UploadInitiate(TRUE)

\* lines 83-90: UPLOAD_CHUNK of the next chunk
UploadChunk(io) ==
    /\ cli.pc = "upload_chunks"
    /\ cli.todo_chunks # <<>>
    /\ LET r == upload_chunk(chunks[cli.node], Head(cli.todo_hashes),
                             Head(cli.todo_chunks), io)
       IN  chunks' = [chunks EXCEPT ![cli.node] = r.tree]
    /\ cli' = [cli EXCEPT !.todo_chunks = Tail(@), !.todo_hashes = Tail(@),
                          !.store_failed = @ \/ ~io]
    /\ UNCHANGED <<metadata, dht_values, tables, resp, rpcLeft, cmdsLeft, uploaded>>
    /\ UNCHANGED <<rtVars, routingVars, lookupVars, bootVars, pingVars, findVars>>

CliUploadChunk == UploadChunk(TRUE)

\* storage.rs 34 and 46-50 with server.rs 176-184 and 193-197: the store of
\* the node returns Err, nothing is stored, and the handler answers
\* success: true, so that upload_file goes on
CliUploadStoreFails == UploadInitiate(FALSE) \/ UploadChunk(FALSE)

\* lines 80, 89 and 100: the `?` of a request to the node.  The request
\* returns an error (the node has stopped or refuses it) and upload_file
\* returns Err at once; nothing is stored by that request.
CliUploadFails ==
    /\ \/ /\ cli.pc \in {"idle", "done"}
          /\ cmdsLeft > 0
          /\ \E n \in Nodes, data \in Files :
                cli' = [Idle EXCEPT !.pc = "done", !.cmd = "upload", !.node = n,
                                    !.data = data,
                                    !.file_hash = file_hash_of(file_info(data)),
                                    !.result = "err"]
          /\ cmdsLeft' = cmdsLeft - 1
       \/ /\ cli.pc = "upload_chunks"
          /\ cli' = [cli EXCEPT !.pc = "done", !.result = "err"]
          /\ UNCHANGED cmdsLeft
       \* lines 113-118: the STORE to a peer that listens returns Err; the
       \* peer has stored nothing and the peers after it get no STORE
       \/ /\ cli.pc = "announce"
          /\ cli.peers # <<>>
          /\ Listening(Head(cli.peers).address)
          /\ cli' = [cli EXCEPT !.pc = "done", !.result = "err"]
          /\ UNCHANGED cmdsLeft
    /\ UNCHANGED <<chunks, metadata, dht_values, tables, resp, rpcLeft, uploaded>>
    /\ UNCHANGED <<rtVars, routingVars, lookupVars, bootVars, pingVars, findVars>>

\* lines 95-102: FIND_NODE(file_hash) at the node
CliUploadFindNode ==
    /\ cli.pc = "upload_chunks"
    /\ cli.todo_chunks = <<>>
    /\ cli' = [cli EXCEPT !.pc = "announce",
                          !.peers = find_node(tables[cli.node], as_node_id(cli.file_hash))]
    /\ UNCHANGED <<chunks, metadata, dht_values, tables, resp, rpcLeft, cmdsLeft, uploaded>>
    /\ UNCHANGED <<rtVars, routingVars, lookupVars, bootVars, pingVars, findVars>>

\* lines 110-121: STORE(file_hash, node_addr) at the next of the closest
\* peers, or Ok(()) when none is left
CliUploadAnnounce ==
    /\ cli.pc = "announce"
    /\ IF cli.peers = <<>>
       THEN /\ cli' = [cli EXCEPT !.pc = "done", !.result = "ok"]
            /\ uploaded' = insert(uploaded, cli.file_hash,
                                   [data |-> cli.data, node |-> cli.node])
            /\ UNCHANGED dht_values
       ELSE IF ~Listening(Head(cli.peers).address)
       THEN /\ cli' = [cli EXCEPT !.pc = "done", !.result = "err"]
            /\ UNCHANGED <<dht_values, uploaded>>
       ELSE LET to == Head(cli.peers).address
                r  == store(dht_values[to], cli.file_hash, node_address(cli.node))
            IN  /\ dht_values' = [dht_values EXCEPT ![to] = r.tree]
                /\ cli' = [cli EXCEPT !.peers = Tail(@)]
                /\ UNCHANGED uploaded
    /\ UNCHANGED <<chunks, metadata, tables, resp, rpcLeft, cmdsLeft>>
    /\ UNCHANGED <<rtVars, routingVars, lookupVars, bootVars, pingVars, findVars>>

(***************************************************************************)
(* cli.rs: download_file.  output is <<>> while no file has been created   *)
(* and <<bytes>> once it has.                                              *)
(***************************************************************************)
\* lines 129-143: FIND_VALUE(file_hash) at the node.  The handler reads the
\* value store (server.rs 66): with a value it answers at once; without one
\* it goes on to lock the routing table (74-79), and other requests are
\* handled before it answers
CliDownloadFindValue ==
    /\ cli.pc \in {"idle", "done"}
    /\ cmdsLeft > 0
    /\ \E n \in Nodes, f \in FileHashes :
          LET value == get_value(dht_values[n], f)
          IN  cli' = IF value # <<>>
                     THEN [Idle EXCEPT !.pc = "get_metadata", !.cmd = "download",
                                       !.node = n, !.file_hash = f,
                                       !.provider = find_value(dht_values[n], tables[n], f).value[1]]
                     ELSE [Idle EXCEPT !.pc = "find_value", !.cmd = "download",
                                       !.node = n, !.file_hash = f]
    /\ cmdsLeft' = cmdsLeft - 1
    /\ UNCHANGED <<chunks, metadata, dht_values, tables, resp, rpcLeft, uploaded>>
    /\ UNCHANGED <<rtVars, routingVars, lookupVars, bootVars, pingVars, findVars>>

\* server.rs 74-90 and cli.rs 167-169: the handler has the lock and answers
\* with the closest peers, without reading the value store again;
\* download_file prints that the file was not found and returns Ok
CliDownloadNotFound ==
    /\ cli.pc = "find_value"
    /\ find_value_peers(tables[cli.node], cli.file_hash).value = <<>>
    /\ cli' = [cli EXCEPT !.pc = "done", !.result = "ok"]
    /\ UNCHANGED <<chunks, metadata, dht_values, tables, resp, rpcLeft, cmdsLeft, uploaded>>
    /\ UNCHANGED <<rtVars, routingVars, lookupVars, bootVars, pingVars, findVars>>

\* lines 146-157: GET_FILE_METADATA at the provider, then File::create
CliDownloadMetadata ==
    /\ cli.pc = "get_metadata"
    /\ IF ~Listening(cli.provider)
       THEN cli' = [cli EXCEPT !.pc = "done", !.result = "err"]
       ELSE LET r == get_file_metadata(metadata[cli.provider], cli.file_hash)
                m == IF r = <<>> THEN <<>> ELSE deserialize(r[1])
            IN  IF m = <<>>
                THEN cli' = [cli EXCEPT !.pc = "done", !.result = "err"]
                ELSE cli' = [cli EXCEPT !.pc = "get_chunks", !.output = << <<>> >>,
                                        !.todo_hashes = m[1].chunk_hashes]
    /\ UNCHANGED <<chunks, metadata, dht_values, tables, resp, rpcLeft, cmdsLeft, uploaded>>
    /\ UNCHANGED <<rtVars, routingVars, lookupVars, bootVars, pingVars, findVars>>

\* lines 159-166: GET_CHUNK of the next chunk hash, appended to the file
CliDownloadChunk ==
    /\ cli.pc = "get_chunks"
    /\ IF cli.todo_hashes = <<>>
       THEN cli' = [cli EXCEPT !.pc = "done", !.result = "ok"]
       ELSE LET r == serve_get_chunk(chunks[cli.provider], Head(cli.todo_hashes))
            IN  IF r = <<>>
                THEN cli' = [cli EXCEPT !.pc = "done", !.result = "err"]
                ELSE cli' = [cli EXCEPT !.output = << @[1] \o r[1] >>,
                                        !.todo_hashes = Tail(@)]
    /\ UNCHANGED <<chunks, metadata, dht_values, tables, resp, rpcLeft, cmdsLeft, uploaded>>
    /\ UNCHANGED <<rtVars, routingVars, lookupVars, bootVars, pingVars, findVars>>

ServerNext ==
    \/ RpcRead
    \/ RpcFindValueWait
    \/ RpcFindValueAnswer
    \/ RpcPing
    \/ RpcUploadChunk
    \/ RpcInitiateUpload
    \/ RpcStore
    \/ RpcGetChunk

\* the servers under the requests of arbitrary clients
ServerInit ==
    RTInit /\ NodesInit(MaxRpc, 0) /\ RoutingInit(0) /\ LookupIdle /\ BootIdle /\ PingIdle /\ FindIdle

SpecServer == ServerInit /\ [][ServerNext]_vars

CliNext ==
    \/ RpcPing
    \/ RpcUploadChunk
    \/ RpcInitiateUpload
    \/ RpcStore
    \/ RpcGetChunk
    \/ CliUploadInitiate
    \/ CliUploadChunk
    \/ CliUploadFindNode
    \/ CliUploadAnnounce
    \/ CliDownloadFindValue
    \/ CliDownloadNotFound
    \/ CliDownloadMetadata
    \/ CliDownloadChunk

\* the command line client, with one request of another client at any time
CliInit ==
    RTInit /\ NodesInit(1, MaxCmds) /\ RoutingInit(0) /\ LookupIdle /\ BootIdle /\ PingIdle /\ FindIdle

SpecCli == CliInit /\ [][CliNext]_vars

\* the command line client among other clients that send MaxRpc requests
CliBusyInit ==
    RTInit /\ NodesInit(MaxRpc, MaxCmds) /\ RoutingInit(0) /\ LookupIdle /\ BootIdle /\ PingIdle /\ FindIdle

SpecCliBusy == CliBusyInit /\ [][CliNext]_vars

(***************************************************************************)
(* cli.rs: upload_file through nodes whose routing tables hold peers: the  *)
(* tables are those that RoutingTable::add_peer, run to its end, gives for *)
(* the records of the other node and of peers at whose address nobody      *)
(* listens.                                                                *)
(***************************************************************************)
\* the table of a node after add_peer of the given records, every liveness
\* PING answered
RECURSIVE table_with(_, _)
table_with(local, peers) ==
    IF peers = <<>> THEN EmptyTable
    ELSE LET table == table_with(local, SubSeq(peers, 1, Len(peers) - 1))
         IN  \* the comparison has the table so far evaluated before add_peer
             \* is entered, which keeps the evaluation of the recursion shallow
             IF table = EmptyTable
             THEN add_peer(EmptyTable, local, peers[Len(peers)], TRUE)
             ELSE add_peer(table, local, peers[Len(peers)], TRUE)

\* the record under which a node is known to its peers
NodeRecord(n) == [node_id |-> node_id_of(n), address |-> node_address(n)]

\* the node after n
NextNode(n) == (n % NumNodes) + 1

\* an address where nobody listens
DeadAddress == NumNodes + 1

\* peers that have left the network
DeadPeers ==
    {[node_id |-> id, address |-> DeadAddress] : id \in {1, Pow2(IdBits) - 2}}

\* what a node has seen: the other nodes and the peers that have left
KnownPeers(n) ==
    {[node_id |-> node_id_of(m), address |-> node_address(m)] : m \in Nodes \ {n}}
        \cup DeadPeers

\* the tables of a node with one or two of these peers
PeeredTables(n) ==
    {table_with(node_id_of(n), <<p>>) : p \in KnownPeers(n)}
        \cup {table_with(node_id_of(n), <<p, q>>) :
                  p \in KnownPeers(n), q \in KnownPeers(n)}

PeeredNodes(Tables(_), c) ==
    /\ chunks = [n \in Nodes |-> EmptyTree]
    /\ metadata = [n \in Nodes |-> EmptyTree]
    /\ dht_values = [n \in Nodes |-> EmptyTree]
    /\ tables \in {t \in [Nodes -> UNION {Tables(n) : n \in Nodes}] :
                       \A n \in Nodes : t[n] \in Tables(n)}
    /\ resp = NoResponse
    /\ rpcLeft = 0
    /\ cli = Idle
    /\ cmdsLeft = c
    /\ uploaded = EmptyTree

\* one command of the client
PeeredInit == PeeredNodes(PeeredTables, 1)

AnnounceInit == RTInit /\ PeeredInit /\ RoutingInit(0) /\ LookupIdle /\ BootIdle /\ PingIdle /\ FindIdle

AnnounceNext ==
    \/ CliUploadInitiate
    \/ CliUploadChunk
    \/ CliUploadFindNode
    \/ CliUploadAnnounce

\* one upload through a node that has peers
SpecAnnounce == AnnounceInit /\ [][AnnounceNext]_vars

UploadNext == AnnounceNext \/ CliUploadFails

\* one upload through a node that has peers and whose requests may fail
SpecUpload == AnnounceInit /\ [][UploadNext]_vars

UploadIoNext == UploadNext \/ CliUploadStoreFails

\* one upload through a node that has peers, whose requests may fail and
\* whose stores may fail
SpecUploadIo == AnnounceInit /\ [][UploadIoNext]_vars

\* the tables of a node that has seen the node after it, alone or after a
\* peer that has left
ShareTables(n) ==
    {table_with(node_id_of(n), <<NodeRecord(NextNode(n))>>)}
        \cup {table_with(node_id_of(n), <<p, NodeRecord(NextNode(n))>>) : p \in DeadPeers}

ShareInit ==
    RTInit /\ PeeredNodes(ShareTables, MaxCmds) /\ RoutingInit(0) /\ LookupIdle /\ BootIdle /\ PingIdle /\ FindIdle

ShareNext ==
    \/ UploadNext
    \/ CliDownloadFindValue
    \/ CliDownloadNotFound
    \/ CliDownloadMetadata
    \/ CliDownloadChunk

\* uploads and downloads through nodes that have peers
SpecShare == ShareInit /\ [][ShareNext]_vars

(***************************************************************************)
(* node.rs: perform_find_node and perform_find_value.  A lookup is started *)
(* by the node LocalId in a network net: net.table is the node's routing   *)
(* table, net.knows[a] the peers that the node listening at address a has  *)
(* seen (nobody listens at an address outside its domain), net.down the    *)
(* addresses that do not answer, net.holders the addresses whose store     *)
(* has a value for the key, net.target the target id or key.               *)
(*                                                                         *)
(* One turn of the loop is two steps: the selection of peers_to_query with *)
(* the dispatch of the queries, and the processing of the responses after  *)
(* join_all.                                                               *)
(***************************************************************************)
\* the routing table of a node after add_peer of the given ids, every
\* liveness PING answered
RECURSIVE table_of(_, _)
table_of(local, ids) ==
    IF ids = <<>> THEN EmptyTable
    ELSE LET table == table_of(local, SubSeq(ids, 1, Len(ids) - 1))
         IN  \* the comparison has the table so far evaluated before add_peer
             \* is entered, which keeps the evaluation of the recursion shallow
             IF table = EmptyTable
             THEN add_peer(EmptyTable, local, Peer(ids[Len(ids)]), TRUE)
             ELSE add_peer(table, local, Peer(ids[Len(ids)]), TRUE)

\* PeerServiceClient::connect(peer.address) and the request succeed
Answers(network, address) ==
    address \in DOMAIN network.knows /\ address \notin network.down

\* the id of the node listening at an address (address_of is the identity)
id_at(address) == address

\* the routing table of the node that listens at the address; the node that
\* runs the lookup listens as well, its table is network.table
remote_table(network, address) ==
    IF address = address_of(LocalId) THEN network.table
    ELSE table_of(id_at(address), network.knows[address])

remote_values(network, address) ==
    IF address \in network.holders
    THEN store_value(EmptyTree, network.target, address)
    ELSE EmptyTree

\* a selection that does not look at queried_peers
SelectUnfiltered(closest_peers, queried_peers) == take(closest_peers, K_VALUE)

\* closest_peers.iter().filter(|p| !queried_peers.contains(&p.node_id))
\*     .take(K_VALUE)
select_peers_to_query(closest_peers, queried_peers) ==
    LET Unqueried(p) == p.node_id \notin queried_peers
    IN  take(SelectSeq(closest_peers, Unqueried), K_VALUE)

WaveNeverEmpty(peers_to_query) == FALSE

\* peers_to_query.is_empty()
WaveIsEmpty(peers_to_query) == peers_to_query = <<>>

\* closest_peers.iter().any(|p| p.node_id == peer.node_id)
has_peer(closest_peers, peer) ==
    \E i \in 1 .. Len(closest_peers) : closest_peers[i].node_id = peer.node_id

\* for peer in peers { if !any(..) { closest_peers.push(peer); found = true } }
RECURSIVE absorb_peers(_, _)
absorb_peers(acc, peers) ==
    IF peers = <<>> THEN acc
    ELSE absorb_peers(IF has_peer(acc.list, Head(peers)) THEN acc
                      ELSE [acc EXCEPT !.list = Append(@, Head(peers)),
                                       !.found = TRUE],
                      Tail(peers))

\* the future of one query of perform_find_node
query_find_node(network, peer) ==
    IF Answers(network, peer.address)
    THEN [ok |-> TRUE, value |-> <<>>,
          peers |-> find_node(remote_table(network, peer.address), network.target)]
    ELSE [ok |-> FALSE, value |-> <<>>, peers |-> <<>>]

\* the future of one query of perform_find_value
query_find_value(network, peer) ==
    IF Answers(network, peer.address)
    THEN LET r == find_value(remote_values(network, peer.address),
                             remote_table(network, peer.address), network.target)
         IN  [ok |-> TRUE, value |-> r.value, peers |-> r.peers]
    ELSE [ok |-> FALSE, value |-> <<>>, peers |-> <<>>]

\* one turn of the loop over the responses without the return of the Value
AbsorbPeersOnly(acc, r) ==
    IF ~r.ok THEN acc ELSE absorb_peers(acc, r.peers)

\* one turn of the loop over the responses in which an Err counts as news
AbsorbErrAsNews(acc, r) ==
    IF ~r.ok THEN [acc EXCEPT !.found = TRUE]
    ELSE IF r.value # <<>> THEN [acc EXCEPT !.value = r.value]
    ELSE absorb_peers(acc, r.peers)

\* one turn of for res in responses: an Err is skipped; a Value is what
\* perform_find_value returns; peers are pushed unless their node_id is in
\* closest_peers
absorb_response(acc, r) ==
    IF ~r.ok THEN acc
    ELSE IF r.value # <<>> THEN [acc EXCEPT !.value = r.value]
    ELSE absorb_peers(acc, r.peers)

\* for res in responses: the loop ends at once with the first Value
RECURSIVE absorb_responses(_, _)
absorb_responses(acc, responses) ==
    IF responses = <<>> \/ acc.value # <<>> THEN acc
    ELSE absorb_responses(absorb_response(acc, Head(responses)), Tail(responses))

\* the node_ids of the peers that have fewer than K_VALUE peers of the list
\* closer to the target, by the XOR of the whole ids
KBestIds(list, target) ==
    {list[i].node_id : i \in
        {i \in 1 .. Len(list) :
            Cardinality({j \in 1 .. Len(list) :
                Xor(list[j].node_id, target) < Xor(list[i].node_id, target)})
                < K_VALUE}}

PeerIds(list) == {list[i].node_id : i \in 1 .. Len(list)}

(***************************************************************************)
(* The networks of the lookups.                                            *)
(***************************************************************************)
\* the id with the given high half and low half
NearId(h, l) == h * Pow2(HalfBits) + l

IdRange(first, n) == [i \in 1 .. n |-> first + i - 1]

\* two peers far from every fresh peer
FarId1 == Pow2(IdBits) - 1
FarId2 == Pow2(IdBits) - 2

\* the peers that the node LocalId has seen, in the order of their insertion:
\* none, two, four, and a bucket full of them
LookupTables ==
    { <<>>, IdRange(FillId(1), 2), IdRange(FillId(1), 4), IdRange(FillId(1), K_VALUE) }

\* nobody listens
Silent == [a \in {} |-> <<>>]

\* the fresh peers listen; the first one knows a far peer, which knows another
Chain ==
    [a \in (FillId(1) .. FillId(K_VALUE)) \cup {FarId1, FarId2} |->
        IF a = FillId(1) THEN <<FarId1>>
        ELSE IF a = FarId1 THEN <<FarId2>>
        ELSE <<>>]

\* K_VALUE peers near the id 0, the last of them in one high half, and a
\* further peer of that high half with a smaller low half
TiedPeers ==
    IdRange(NearId(1, 0), K_VALUE - (Pow2(HalfBits) - 1))
        \o IdRange(NearId(3, 1), Pow2(HalfBits) - 1)

TiedLast == NearId(3, 0)

\* the second fresh peer knows the K_VALUE near peers, the first one the
\* further peer; nobody else listens
Ties ==
    [a \in {FillId(1), FillId(2)} |->
        IF a = FillId(2) THEN TiedPeers ELSE <<TiedLast>>]

Topologies == {Silent, Chain, Ties}

\* the first two fresh peers and a far peer have seen one another and the
\* node LocalId, which listens too
Echo ==
    [a \in {FillId(1), FillId(2), FarId1, address_of(LocalId)} |->
        IF a = FillId(1) THEN <<LocalId, FillId(2), FarId1>>
        ELSE IF a = FillId(2) THEN <<LocalId, FillId(1), FarId1>>
        ELSE IF a = FarId1 THEN <<FillId(1), LocalId>>
        ELSE <<>>]

LookupTopologies == Topologies \cup {Echo}

DownSets == {{}, {FillId(1)}}

\* nobody, a peer of the second wave, a peer of the first wave, the node itself
HolderSets == {{}, {FarId1}, {FillId(2)}, {address_of(LocalId)}}

\* the last one is the target of a self-lookup
LookupTargets == {0, FillId(1), Pow2(IdBits) - 1, LocalId}

Networks ==
    { [table |-> table_of(LocalId, t), knows |-> k, down |-> d, holders |-> h,
       target |-> g] :
        t \in LookupTables, k \in LookupTopologies, d \in DownSets,
        h \in HolderSets, g \in LookupTargets }

LookupInit ==
    /\ net \in Networks
    /\ lk = NoLookup

\* node.rs 76-82 and 149-150: the locals of the call
LookupStart ==
    /\ lk.pc = "idle"
    /\ \E kind \in {"find_node", "find_value"} :
          lk' = [NoLookup EXCEPT
                    !.pc = "select",
                    !.kind = kind,
                    !.closest_peers = find_closest_peers(net.table, net.target)]
    /\ UNCHANGED net
    /\ UNCHANGED <<rtVars, storeVars, routingVars, bootVars, pingVars, findVars>>

\* node.rs 85-118 and 153-174, and the returns at 142 and 210: the peers of
\* the next wave are selected and queried, or the loop is left
LookupSelect ==
    /\ lk.pc = "select"
    /\ LET peers_to_query == select_peers_to_query(lk.closest_peers, lk.queried_peers)
       IN  IF WaveIsEmpty(peers_to_query)
           THEN lk' = [lk EXCEPT !.pc = "done",
                                 !.peers_to_query = <<>>,
                                 !.returned = take(lk.results, K_VALUE)]
           ELSE lk' = [lk EXCEPT
                          !.pc = "wait",
                          !.peers_to_query = peers_to_query,
                          !.queried_peers = @ \cup PeerIds(peers_to_query),
                          !.waves = @ + 1,
                          !.sent = @ \o [i \in 1 .. Len(peers_to_query) |->
                                            peers_to_query[i].node_id],
                          !.history = Append(@,
                              [size        |-> Len(peers_to_query),
                               top_queried |->
                                   KBestIds(lk.closest_peers, net.target)
                                       \subseteq lk.queried_peers,
                               no_closer   |-> FALSE])]
    /\ UNCHANGED net
    /\ UNCHANGED <<rtVars, storeVars, routingVars, bootVars, pingVars, findVars>>

\* the responses of the queries of a wave, in the order of the queries
wave_responses(network, kind, peers_to_query) ==
    [i \in 1 .. Len(peers_to_query) |->
        IF kind = "find_node"
        THEN query_find_node(network, peers_to_query[i])
        ELSE query_find_value(network, peers_to_query[i])]

\* node.rs 120-139 and 176-207: join_all has returned; the responses are
\* taken in the order of the queries.  The responses, the shortlist with the
\* new peers and the sorted shortlist are each bound as one value.
LookupJoin ==
    /\ lk.pc = "wait"
    /\ \E responses \in {wave_responses(net, lk.kind, lk.peers_to_query)} :
       \E acc \in {absorb_responses(
                       [list |-> lk.closest_peers, found |-> FALSE, value |-> <<>>],
                       responses)} :
       \E sorted \in {sort_by_key(acc.list, net.target)} :
       \E no_closer \in {KBestIds(acc.list, net.target)
                             = KBestIds(lk.closest_peers, net.target)} :
          LET history == [lk.history EXCEPT ![Len(lk.history)].no_closer = no_closer]
          IN  IF acc.value # <<>>
              THEN lk' = [lk EXCEPT !.pc = "done", !.value = acc.value,
                                    !.closest_peers = acc.list,
                                    !.peers_to_query = <<>>,
                                    !.history = history]
              ELSE lk' = [lk EXCEPT
                             !.pc = IF acc.found THEN "select" ELSE "done",
                             !.closest_peers = sorted,
                             !.results = IF lk.kind = "find_node" THEN sorted ELSE <<>>,
                             !.returned = IF ~acc.found /\ lk.kind = "find_node"
                                          THEN take(sorted, K_VALUE) ELSE <<>>,
                             !.peers_to_query = <<>>,
                             !.history = history]
    /\ UNCHANGED net
    /\ UNCHANGED <<rtVars, storeVars, routingVars, bootVars, pingVars, findVars>>

LookupNext == LookupStart \/ LookupSelect \/ LookupJoin

LookupBegin ==
    RTInit /\ NodesInit(0, 0) /\ RoutingInit(0) /\ LookupInit /\ BootIdle /\ PingIdle /\ FindIdle

\* one lookup of the node LocalId in any of the networks
SpecLookup == LookupBegin /\ [][LookupNext]_vars

\* the networks in which the node LocalId has seen at most two peers and
\* every node answers with at most one peer
SmallNetworks ==
    {n \in Networks : Len(flat_map(n.table, 0)) <= 2 /\ n.knows \in {Silent, Chain}}

LookupBeginFair ==
    /\ RTInit /\ NodesInit(0, 0) /\ RoutingInit(0)
    /\ net \in SmallNetworks
    /\ lk = NoLookup
    /\ BootIdle /\ PingIdle /\ FindIdle

\* the runtime polls the call whenever it can go on, and join_all returns
\* once every query has returned
SpecLookupFair == LookupBeginFair /\ [][LookupNext]_vars /\ WF_vars(LookupNext)

(***************************************************************************)
(* node.rs: Node::bootstrap, called by Node::start of a node that has just *)
(* been created (its routing table is the one of RoutingTable::new).  The  *)
(* network is net; boot.local is the id of the node and boot.addr the      *)
(* address of the bootstrap peer.                                          *)
(***************************************************************************)
\* perform_find_node as one call: the loop of node.rs 84-140 from the given
\* locals, and the value returned at 142 with the peers that were queried
RECURSIVE find_node_loop(_, _, _, _)
find_node_loop(network, closest_peers, queried_peers, results) ==
    LET peers_to_query == select_peers_to_query(closest_peers, queried_peers)
    IN  IF WaveIsEmpty(peers_to_query)
        THEN [returned |-> take(results, K_VALUE), queried_peers |-> queried_peers]
        ELSE LET queried == queried_peers \cup PeerIds(peers_to_query)
                 acc == absorb_responses(
                            [list |-> closest_peers, found |-> FALSE, value |-> <<>>],
                            wave_responses(network, "find_node", peers_to_query))
                 sorted == sort_by_key(acc.list, network.target)
             IN  IF ~acc.found
                 THEN [returned |-> take(sorted, K_VALUE), queried_peers |-> queried]
                 ELSE find_node_loop(network, sorted, queried, sorted)

perform_find_node(network) ==
    find_node_loop(network, find_closest_peers(network.table, network.target),
                   {}, <<>>)

\* node.rs 64: self.routing_table.lock().await.add_peer(bootstrap_peer);
\* add_peer is an async fn and the future it returns is dropped at the end of
\* the statement without an await: the body of add_peer never runs
add_peer_unawaited(table, local, peer) == table

\* the ids of the nodes that bootstrap: all-zeros and LocalId
BootLocals == {0, LocalId}

\* the addresses given as bootstrap peer: fresh peers, the far peers (FarId1
\* has the id all-ones) and an address where nobody listens
BootAddresses == {FillId(1), FillId(2), FarId1, FarId2, TiedLast}

\* the networks around a node that has seen nobody
BootNetworks ==
    { [table |-> EmptyTable, knows |-> k, down |-> d, holders |-> {}, target |-> 0] :
        k \in Topologies, d \in DownSets }

BootInit ==
    /\ net \in BootNetworks
    /\ lk = NoLookup
    /\ \E l \in BootLocals, a \in BootAddresses :
          boot = [NoBoot EXCEPT !.pc = "start", !.local = l, !.addr = a,
                                !.table = EmptyTable]

\* lines 46-57: connect and PING; an error of either ends bootstrap with Err.
\* The peer's handler leaves its routing table as it is.
BootstrapPing ==
    /\ boot.pc = "start"
    /\ IF ~Answers(net, boot.addr)
       THEN boot' = [boot EXCEPT !.pc = "done", !.result = "err"]
       ELSE LET r == ping(remote_table(net, boot.addr), id_at(boot.addr),
                          Peer(boot.local))
            IN  boot' = [boot EXCEPT !.pc = "pinged", !.pong = r.node_id,
                                     !.events = Append(@, "ping")]
    /\ UNCHANGED <<rtVars, storeVars, routingVars, lookupVars, pingVars, findVars>>

\* lines 59-64: the record of the bootstrap peer and the add_peer call
BootstrapAddPeer ==
    /\ boot.pc = "pinged"
    /\ LET bootstrap_peer == [node_id |-> boot.pong, address |-> boot.addr]
       IN  boot' = [boot EXCEPT
                       !.pc = "inserted",
                       !.table = add_peer_unawaited(boot.table, boot.local,
                                                    bootstrap_peer),
                       !.events = Append(@, "add_peer")]
    /\ UNCHANGED <<rtVars, storeVars, routingVars, lookupVars, pingVars, findVars>>

\* lines 67-69: perform_find_node(&self.id) and Ok(())
BootstrapFindNode ==
    /\ boot.pc = "inserted"
    /\ LET r == perform_find_node([net EXCEPT !.table = boot.table,
                                              !.target = boot.local])
       IN  boot' = [boot EXCEPT !.pc = "done", !.result = "ok",
                                !.returned = r.returned,
                                !.queried_peers = r.queried_peers,
                                !.events = Append(@, "find_node")]
    /\ UNCHANGED <<rtVars, storeVars, routingVars, lookupVars, pingVars, findVars>>

BootstrapNext == BootstrapPing \/ BootstrapAddPeer \/ BootstrapFindNode

BootstrapBegin == RTInit /\ NodesInit(0, 0) /\ RoutingInit(0) /\ BootInit /\ PingIdle /\ FindIdle

\* the bootstrap of a new node against any of the bootstrap addresses
SpecBootstrap == BootstrapBegin /\ [][BootstrapNext]_vars

(***************************************************************************)
(* server.rs: the PING handler, step by step, with the tokio Mutex of the  *)
(* routing table, and dht.rs: add_peer on the table of a node, which holds *)
(* that Mutex while it waits for the answer to its liveness PING.  Several *)
(* requests are handled at the same time; every node has seen K_VALUE      *)
(* peers of one bucket.                                                    *)
(***************************************************************************)
PingHandlers == 1 .. MaxRpc

\* the senders of the PINGs that a node receives: a peer that falls into the
\* full bucket, and the other nodes
PingPeers(n) ==
    {Peer(FillId(K_VALUE + 1))}
        \cup {[node_id |-> node_id_of(m), address |-> node_address(m)] :
                  m \in Nodes \ {n}}

\* K_VALUE records of the top bucket of a node in the order in which it has
\* seen them; the record that it has seen last, which is the one at the
\* front, names the address at which the next node listens
FullBucket(n) ==
    [i \in 1 .. K_VALUE |->
        IF i = K_VALUE
        THEN [node_id |-> FillId(i), address |-> node_address(NextNode(n))]
        ELSE Peer(FillId(i))]

PingInit ==
    /\ chunks = [n \in Nodes |-> EmptyTree]
    /\ metadata = [n \in Nodes |-> EmptyTree]
    /\ dht_values = [n \in Nodes |-> EmptyTree]
    /\ tables = [n \in Nodes |-> table_with(node_id_of(n), FullBucket(n))]
    /\ resp = NoResponse
    /\ rpcLeft = 0
    /\ cli = Idle
    /\ cmdsLeft = 0
    /\ uploaded = EmptyTree
    /\ PingIdle /\ FindIdle

\* lines 19-24: a request arrives and the handler builds the Peer; it goes
\* on to self.node.routing_table.lock()
PingReceive ==
    /\ \E h \in PingHandlers, n \in Nodes :
       \E sender \in PingPeers(n) :
          /\ ph.call[h].pc = "idle"
          /\ ph' = [ph EXCEPT !.call[h] =
                        [NoHandler EXCEPT !.pc = "lock", !.node = n, !.peer = sender]]
    /\ UNCHANGED <<rtVars, storeVars, routingVars, lookupVars, bootVars, findVars>>

\* line 25, lock().await: the handler gets the guard once the Mutex is free
PingLock ==
    /\ \E h \in PingHandlers :
          /\ ph.call[h].pc = "lock"
          /\ ph.lock[ph.call[h].node] = 0
          /\ ph' = [ph EXCEPT !.lock[ph.call[h].node] = h,
                              !.call[h].pc = "locked",
                              !.call[h].before = tables[ph.call[h].node]]
    /\ UNCHANGED <<rtVars, storeVars, routingVars, lookupVars, bootVars, findVars>>

\* line 25, .add_peer(peer); the future of add_peer is dropped without an
\* await, and the guard with it at the end of the statement
PingAddPeer ==
    /\ \E h \in PingHandlers :
          LET n     == ph.call[h].node
              table == add_peer_unawaited(tables[n], node_id_of(n), ph.call[h].peer)
          IN  /\ ph.call[h].pc = "locked"
              /\ tables' = [tables EXCEPT ![n] = table]
              /\ ph' = [ph EXCEPT !.lock[n] = 0,
                                  !.call[h].pc = "unlocked",
                                  !.call[h].after = table]
    /\ UNCHANGED <<chunks, metadata, dht_values, resp, rpcLeft, cli, cmdsLeft, uploaded>>
    /\ UNCHANGED <<rtVars, routingVars, lookupVars, bootVars, findVars>>

\* lines 26-29: the PongResponse with the node's id
PingRespond ==
    /\ \E h \in PingHandlers :
          /\ ph.call[h].pc = "unlocked"
          /\ ph' = [ph EXCEPT !.call[h].pc = "done",
                              !.call[h].pong = node_id_of(ph.call[h].node)]
    /\ UNCHANGED <<rtVars, storeVars, routingVars, lookupVars, bootVars, findVars>>

\* the node that listens at the address
node_at(address) == CHOOSE n \in Nodes : node_address(n) = address

\* dht.rs 38-55 on the table of a node.  The table of a node is reached only
\* through the Mutex of Node::routing_table (node.rs 17) and add_peer
\* borrows it mutably until it returns, so that the guard is held from the
\* call to the return, the await of ping_peer included.  The bucket of the
\* new peer is full: add_peer takes the record at the front and ping_peer
\* connects to its address and sends the PING, which the node at that
\* address gets
AddPeerProbe ==
    /\ \E n \in Nodes, h \in PingHandlers :
          LET r == add_peer_call(tables[n], node_id_of(n), Peer(FillId(K_VALUE + 1)))
          IN  /\ ph.adder[n].pc = "idle"
              /\ ph.lock[n] = 0
              /\ ph.call[h].pc = "idle"
              /\ r.op = "probe"
              /\ Listening(r.call.probed.address)
              /\ tables' = [tables EXCEPT ![n] = r.table]
              /\ ph' = [ph EXCEPT
                           !.lock[n] = ByAddPeer,
                           !.adder[n] = [pc |-> "probing", call |-> r.call, handler |-> h],
                           !.call[h] =
                               [NoHandler EXCEPT
                                   !.pc = "lock",
                                   !.node = node_at(r.call.probed.address),
                                   !.peer = ping_peer_request(r.call.probed).peer]]
    /\ UNCHANGED <<chunks, metadata, dht_values, resp, rpcLeft, cli, cmdsLeft, uploaded>>
    /\ UNCHANGED <<rtVars, routingVars, lookupVars, bootVars, findVars>>

\* dht.rs 55-65: the PongResponse has come, ping_peer returns Ok, add_peer
\* returns and the guard is dropped
AddPeerResume ==
    /\ \E n \in Nodes :
          /\ ph.adder[n].pc = "probing"
          /\ ph.call[ph.adder[n].handler].pc = "done"
          /\ tables' = [tables EXCEPT ![n] = add_peer_resume(@, ph.adder[n].call, TRUE)]
          /\ ph' = [ph EXCEPT !.lock[n] = 0, !.adder[n].pc = "done"]
    /\ UNCHANGED <<chunks, metadata, dht_values, resp, rpcLeft, cli, cmdsLeft, uploaded>>
    /\ UNCHANGED <<rtVars, routingVars, lookupVars, bootVars, findVars>>

PingNext ==
    \/ PingReceive
    \/ PingLock
    \/ PingAddPeer
    \/ PingRespond
    \/ AddPeerProbe
    \/ AddPeerResume

PingBegin == RTInit /\ PingInit /\ RoutingInit(0) /\ LookupIdle /\ BootIdle

\* the runtime polls every handler that can go on, and the Mutex is handed
\* to a handler that waits for it
SpecPing == PingBegin /\ [][PingNext]_vars /\ WF_vars(PingNext)

\* the routing table of routing.rs under add_node calls
RoutingNext == AddNode \/ FindClosestNodes

RoutingStart ==
    RTInit /\ NodesInit(0, 0) /\ RoutingInit(MaxAdds) /\ LookupIdle /\ BootIdle /\ PingIdle /\ FindIdle

SpecRouting == RoutingStart /\ [][RoutingNext]_vars

(***************************************************************************)
(* Claims about the routing table.                                         *)
(***************************************************************************)
TopBucket == NumBuckets - 1

BucketIds(bucket) == {bucket[i].node_id : i \in 1 .. Len(bucket)}

\* the first n fresh peers, the most recently inserted one at the front
FirstFresh(n) == [i \in 1 .. n |-> Peer(FillId(n + 1 - i))]

Completed == inflight = NoCall /\ last.op # "none"

\* C5: after any sequence of add_peer calls, whatever the liveness PINGs
\* answer, each of the buckets holds at most K_VALUE peers.
C5_BucketsBounded ==
    \A i \in 0 .. (NumBuckets - 1) : Len(buckets[i]) <= K_VALUE

\* a new peer met a full bucket, the PING failed, and the bucket is full again
C5_Witness ==
    /\ inflight = NoCall
    /\ last.op = "evict"
    /\ Len(last.before) = K_VALUE
    /\ Len(buckets[last.index]) = K_VALUE

\* C6: no two records of the routing table have the same node_id, also when
\* one node_id has been inserted with two addresses.
C6_NoDuplicateIds ==
    \A i, j \in 0 .. (NumBuckets - 1) :
        \A a \in 1 .. Len(buckets[i]) :
            \A b \in 1 .. Len(buckets[j]) :
                buckets[i][a].node_id = buckets[j][b].node_id
                    => (i = j /\ a = b)

\* a node_id that the table holds was inserted again under another address
C6_Witness ==
    /\ last.op = "touch"
    /\ inflight = NoCall
    /\ \E k \in 1 .. Len(last.before) :
          /\ last.before[k].node_id = last.peer.node_id
          /\ last.before[k].address # last.peer.address

\* C7: no peer leaves the table unless its bucket was full and the liveness
\* PING to it failed; a full bucket whose probed peer answers the PING is left
\* as it was, the new peer being discarded.
C7_RemovalOnlyAfterFailedPing ==
    Completed =>
        /\ \A k \in 1 .. Len(last.before) :
              \/ last.before[k].node_id \in BucketIds(buckets[last.index])
              \/ /\ last.op = "evict"
                 /\ Len(last.before) = K_VALUE
                 /\ last.before[k] = last.probed
        /\ last.op = "discard" => buckets[last.index] = last.before

\* C8: when the bucket is full and the PING fails, the peer probed and evicted
\* is the back of the bucket, the new peer goes to the front, the bucket
\* holds K_VALUE peers and the other peers keep their order.
C8_EvictsLeastRecentlySeen ==
    (Completed /\ last.op = "evict") =>
        /\ last.probed = last.before[Len(last.before)]
        /\ buckets[last.index] =
              <<last.peer>> \o SubSeq(last.before, 1, Len(last.before) - 1)
        /\ Len(buckets[last.index]) = K_VALUE

\* C9: after n > K_VALUE distinct peers of one bucket have been inserted and
\* every PING was answered, the bucket holds the first K_VALUE of them.
C9_FirstTwentyStay ==
    (inflight = NoCall /\ freeLeft = MaxFree /\ allOk /\ offered > K_VALUE) =>
        buckets[TopBucket] = FirstFresh(K_VALUE)

\* C10: inserting a peer whose node_id is in its bucket moves the record to
\* the front and keeps the size and the order of the others, so a second
\* add_peer(p) gives the table that the first one gave.
C10_MoveToFrontIdempotent ==
    Completed =>
        /\ last.op = "touch" =>
              LET pos == position(last.before, last.peer)
              IN  buckets[last.index] =
                      <<last.before[pos]>> \o remove(last.before, pos)
        /\ \A ok \in BOOLEAN :
              add_peer(buckets, LocalId, last.peer, ok) = buckets

\* C11: inserting a peer whose id is the table's own id is a no-op: the call
\* returns normally and leaves every bucket as it was.
C11_SelfInsertIsNoOp ==
    (rlast.op = "add_node" /\ rlast.node.id = LocalId) =>
        /\ ~rlast.panicked
        /\ rtable = rlast.before

\* 255 minus the number of leading zero bits of the XOR of the whole ids
FullXorIndex(local, id) ==
    IF id = local THEN 0 ELSE BitLen(Xor(local, id)) - 1

\* C12: bucket_index is 255 minus the number of leading zero bits of the XOR
\* of the whole ids, wherever the ids first differ, and 0 for the table's own
\* id; so every peer of bucket i has bucket_index i and shares exactly
\* 255 - i leading bits with the local id.
C12_BucketIndexOfFullXor ==
    /\ \A i \in 0 .. (NumBuckets - 1) :
          \A k \in 1 .. Len(buckets[i]) :
              /\ bucket_index(LocalId, buckets[i][k].node_id) = i
              /\ FullXorIndex(LocalId, buckets[i][k].node_id) = i
    /\ (Completed /\ last.op # "self") =>
          last.index = FullXorIndex(LocalId, last.peer.node_id)

\* the ids that add_peer has measured against the local id so far
SeenIds ==
    {LocalId}
        \cup UNION {BucketIds(buckets[i]) : i \in 0 .. (NumBuckets - 1)}
        \cup (IF last.op = "none" THEN {} ELSE {last.peer.node_id})

\* C13: xor_distance orders ids as the XOR of the whole ids, read as a
\* big-endian unsigned integer, does: xor_distance(a, c) < xor_distance(b, c)
\* exactly when the whole XOR values compare that way, and
\* xor_distance(a, b) = 0 exactly when a = b.
C13_DistanceOrdersAsFullXor ==
    \A a, b \in SeenIds :
        /\ (xor_distance(a, LocalId) < xor_distance(b, LocalId))
              <=> (Xor(a, LocalId) < Xor(b, LocalId))
        /\ (xor_distance(a, b) = 0) <=> (a = b)

\* the targets of the lookups in the table
Targets == {0, LocalId, FillId(1), Pow2(IdBits) - 1}

\* (distance, raw id) of p comes before that of q
CloserThan(p, q, target) ==
    \/ Xor(p.node_id, target) < Xor(q.node_id, target)
    \/ /\ Xor(p.node_id, target) = Xor(q.node_id, target)
       /\ p.node_id < q.node_id

\* C14: find_closest_peers(target) returns min(K, n) of the n peers of the
\* table, ascending by XOR distance to the target, ties broken by raw id, and
\* no peer left out is closer than a returned one; so the result is a
\* function of the set of peers, not of the order of their insertion.
C14_ClosestSortedByDistanceThenId ==
    inflight = NoCall =>
        \A t \in Targets :
            LET all == flat_map(buckets, 0)
                res == find_closest_peers(buckets, t)
            IN  /\ Len(res) = (IF Len(all) < K_VALUE THEN Len(all) ELSE K_VALUE)
                /\ \A i \in 1 .. Len(res) : \E k \in 1 .. Len(all) : all[k] = res[i]
                /\ \A i, j \in 1 .. Len(res) : i < j => CloserThan(res[i], res[j], t)
                /\ \A k \in 1 .. Len(all) :
                      (\A i \in 1 .. Len(res) : res[i] # all[k]) =>
                          \A i \in 1 .. Len(res) :
                              Xor(res[i].node_id, t) <= Xor(all[k].node_id, t)

(***************************************************************************)
(* Claims about the iterative lookups.                                     *)
(***************************************************************************)
LookupDone == lk.pc = "done"

\* C16: in every wave of perform_find_node and perform_find_value at most
\* alpha = 3 peers are queried, and they are the closest peers of the
\* shortlist that had not been queried.
C16_AtMostAlphaPerWave ==
    /\ \A w \in 1 .. Len(lk.history) : lk.history[w].size <= 3
    /\ \A i \in 1 .. Len(lk.peers_to_query) :
          \A k \in 1 .. Len(lk.closest_peers) :
              lk.closest_peers[k].node_id \notin lk.queried_peers =>
                  Xor(lk.peers_to_query[i].node_id, net.target)
                      <= Xor(lk.closest_peers[k].node_id, net.target)

\* C17: when perform_find_node has terminated, every one of the K peers of
\* its final shortlist that are closest to the target has been queried.
C17_KClosestQueriedAtEnd ==
    (LookupDone /\ lk.kind = "find_node") =>
        KBestIds(lk.closest_peers, net.target) \subseteq lk.queried_peers

\* C18: no wave is dispatched once the K closest peers of the shortlist have
\* all been queried, and a wave that brings no peer closer than the K best
\* is followed by at most one more wave.
C18_NoWaveAfterKClosestQueried ==
    \A w \in 1 .. Len(lk.history) :
        /\ ~lk.history[w].top_queried
        /\ lk.history[w].no_closer => Len(lk.history) <= w + 1

\* C19: in a finite network in which every query returns, every
\* perform_find_node and perform_find_value call terminates, after at most
\* as many waves as there are peers in its shortlist (the peers of the table
\* and those learned from replies).
C19_LookupTerminates ==
    /\ [](lk.waves <= Cardinality(PeerIds(lk.closest_peers)))
    /\ <>LookupDone

\* a lookup has ended after a wave that learned peers and a further wave
C19_Witness ==
    /\ LookupDone
    /\ lk.waves >= 2
    /\ Cardinality(PeerIds(lk.closest_peers)) > Len(flat_map(net.table, 0))

\* C20: perform_find_node returns at most K peers: the records of the final
\* shortlist that are closest to the target, in ascending distance and
\* without a node_id twice; with an empty routing table it returns the
\* empty list.
C20_ReturnsKClosestAscending ==
    (LookupDone /\ lk.kind = "find_node") =>
        /\ Len(lk.returned) <= K_VALUE
        /\ PeerIds(lk.returned) = KBestIds(lk.closest_peers, net.target)
        /\ \A i \in 1 .. Len(lk.returned) :
              \E k \in 1 .. Len(lk.closest_peers) :
                  lk.closest_peers[k] = lk.returned[i]
        /\ \A i, j \in 1 .. Len(lk.returned) :
              i < j => Xor(lk.returned[i].node_id, net.target)
                          < Xor(lk.returned[j].node_id, net.target)
        /\ net.table = EmptyTable => lk.returned = <<>>

\* the replies of the wave that is in flight, and those that carry a value
WaveReplies == wave_responses(net, lk.kind, lk.peers_to_query)

ValueReplies == {i \in 1 .. Len(WaveReplies) : WaveReplies[i].value # <<>>}

\* the queried peers that answer and hold a value for the key
QueriedHolders ==
    {a \in net.holders : a \in lk.queried_peers /\ Answers(net, a)}

\* C21: once a wave of perform_find_value contains a reply that carries a
\* value, the call returns that value (the first one in the order of the
\* queries) and no further wave is dispatched; the call returns no value
\* only if no queried peer replied with a value.
C21_ValueEndsLookup ==
    /\ [][(lk.pc = "wait" /\ lk.kind = "find_value" /\ ValueReplies # {}) =>
            /\ lk'.pc = "done"
            /\ lk'.value =
                   WaveReplies[CHOOSE i \in ValueReplies :
                                   \A j \in ValueReplies : i <= j].value
            /\ lk'.waves = lk.waves]_vars
    /\ [][lk.value # <<>> => (lk'.waves = lk.waves /\ lk'.value = lk.value)]_vars
    /\ []((LookupDone /\ lk.kind = "find_value" /\ lk.value = <<>>) =>
            QueriedHolders = {})

\* a value came with the second wave and has been returned
C21_Witness ==
    /\ LookupDone
    /\ lk.kind = "find_value"
    /\ lk.value # <<>>
    /\ lk.waves = 2

\* C22: a FIND_VALUE for a key whose value is in the node's own store returns
\* that value without a request to another peer: the handler answers with
\* the value and no peers, and perform_find_value of such a node dispatches
\* no wave and returns the value.
C22_LocalValueWithoutRpc ==
    address_of(LocalId) \in net.holders =>
        LET local_value == get_value(remote_values(net, address_of(LocalId)), net.target)
        IN  /\ find_value(remote_values(net, address_of(LocalId)), net.table, net.target)
                   = [value |-> local_value, peers |-> <<>>]
            /\ lk.kind = "find_value" =>
                   /\ lk.waves = 0
                   /\ LookupDone => lk.value = local_value

\* the replies of the wave in flight with every failed query replaced by an
\* answer that carries an empty list of peers
AsEmptyReplies ==
    [i \in 1 .. Len(WaveReplies) |->
        IF WaveReplies[i].ok THEN WaveReplies[i]
        ELSE [ok |-> TRUE, value |-> <<>>, peers |-> <<>>]]

\* C23: a query of a lookup that fails is treated as a reply with no peers:
\* after a wave with a failed query the shortlist, the value, the decision to
\* go on or to return, and the peers returned are those that the wave gives
\* when the failed peers answer with an empty list, and the call returns.
C23_FailedQueryIsEmptyReply ==
    [][(lk.pc = "wait" /\ \E i \in 1 .. Len(WaveReplies) : ~WaveReplies[i].ok) =>
        LET acc == absorb_responses(
                       [list |-> lk.closest_peers, found |-> FALSE, value |-> <<>>],
                       AsEmptyReplies)
            sorted == sort_by_key(acc.list, net.target)
        IN  /\ lk'.value = acc.value
            /\ lk'.closest_peers = IF acc.value # <<>> THEN acc.list ELSE sorted
            /\ lk'.pc = IF acc.value # <<>> \/ ~acc.found THEN "done" ELSE "select"
            /\ (lk.kind = "find_node" /\ ~acc.found) =>
                   lk'.returned = take(sorted, K_VALUE)]_vars

\* a lookup has returned peers after a wave in which a peer that is down was
\* queried together with peers that answered
C23_Witness ==
    /\ LookupDone
    /\ lk.kind = "find_node"
    /\ lk.returned # <<>>
    /\ net.down \cap lk.queried_peers # {}
    /\ \E a \in lk.queried_peers : Answers(net, a)

\* C26: every peer that a node has queried with success during the lookup of
\* its own id has the record of that node in its routing table, unless the
\* bucket of the node in that table is full.
C26_QueriedPeersLearnSelf ==
    (lk.kind = "find_node" /\ net.target = LocalId /\ lk.pc \in {"select", "done"}) =>
        \A a \in lk.queried_peers :
            Answers(net, a) =>
                LET bucket == remote_table(net, a)[bucket_index(id_at(a), LocalId)]
                IN  \/ \E k \in 1 .. Len(bucket) : bucket[k].node_id = LocalId
                    \/ ~HasRoom(bucket)

(***************************************************************************)
(* Claims about bootstrap.                                                 *)
(***************************************************************************)
BootstrapDone == boot.pc = "done" /\ boot.result = "ok"

\* C24: after a bootstrap against a peer B that answers, the routing table
\* of the node holds the record of the id of B's PING response and B's
\* address in the bucket bucket_index of that id (the last bucket when the
\* local id is all-zeros and B's id all-ones); the PING precedes the
\* insertion, which precedes the FIND_NODE for the node's own id.
C24_BootstrapInsertsPeer ==
    BootstrapDone =>
        LET bucket == boot.table[bucket_index(boot.local, boot.pong)]
        IN  /\ boot.pong = id_at(boot.addr)
            /\ \E k \in 1 .. Len(bucket) :
                   bucket[k] = [node_id |-> boot.pong, address |-> boot.addr]
            /\ (boot.local = 0 /\ boot.pong = Pow2(IdBits) - 1) =>
                   bucket_index(boot.local, boot.pong) = NumBuckets - 1
            /\ boot.events = <<"ping", "add_peer", "find_node">>

\* the ids of the nodes of the network that answer, other than the node that
\* bootstraps
NetworkPeers ==
    {id_at(a) : a \in {a \in DOMAIN net.knows :
                          Answers(net, a) /\ id_at(a) # boot.local}}

\* C25: after the self-lookup of a bootstrap has finished, the peers that the
\* lookup returned are in the routing table of the node, and every bucket
\* for which the network has a peer holds at least one peer.
C25_SelfLookupFillsTable ==
    BootstrapDone =>
        /\ \A i \in 1 .. Len(boot.returned) :
              LET bucket == boot.table[bucket_index(boot.local,
                                                    boot.returned[i].node_id)]
              IN  \E k \in 1 .. Len(bucket) :
                      bucket[k].node_id = boot.returned[i].node_id
        /\ \A id \in NetworkPeers :
              boot.table[bucket_index(boot.local, id)] # <<>>

(***************************************************************************)
(* Claims about the stores, the handlers and the commands.                 *)
(***************************************************************************)
\* C1: every chunk entry (h, b) of every node's store has SHA-256(b) = h,
\* whatever UPLOAD_CHUNK requests the server has handled.
C1_ChunksMatchDigest ==
    \A n \in Nodes : \A h \in DOMAIN chunks[n] : hash(chunks[n][h]) = h

\* C2: an UPLOAD_CHUNK whose chunk_data does not hash to its chunk_hash H is
\* answered without success and stores nothing: when H was absent before,
\* GET_CHUNK(H) finds nothing afterwards.
C2_MismatchRejected ==
    (resp.rpc = "upload_chunk" /\ hash(resp.data) # resp.key) =>
        /\ ~resp.success
        /\ resp.was_absent => serve_get_chunk(chunks[resp.node], resp.key) = <<>>

\* C3: every metadata entry (f, m) of every node's store has
\* SHA-256(canonical(m)) = f; an INITIATE_UPLOAD whose file_hash is not the
\* digest of the serialized metadata is refused and stores nothing.
C3_MetadataMatchesDigest ==
    /\ \A n \in Nodes : \A f \in DOMAIN metadata[n] :
          /\ get_metadata(metadata[n], f) # <<>>
          /\ file_hash_of(get_metadata(metadata[n], f)[1]) = f
    /\ (resp.rpc = "initiate_upload" /\ hash(resp.data) # resp.key) =>
          /\ ~resp.success
          /\ resp.was_absent => get(metadata[resp.node], resp.key) = <<>>

\* C15: after a node has handled a PING whose sender has another node_id
\* than its own and whose bucket is not full, the sender's record is in the
\* node's routing table, and the response carries the node's own id.
C15_PingInsertsSender ==
    (/\ resp.rpc = "ping"
     /\ resp.peer.node_id # node_id_of(resp.node)
     /\ resp.had_room) =>
        LET bucket == tables[resp.node][bucket_index(node_id_of(resp.node),
                                                     resp.peer.node_id)]
        IN  /\ \E k \in 1 .. Len(bucket) : bucket[k] = resp.peer
            /\ resp.key = node_id_of(resp.node)

\* C4: download(upload(bytes)) = bytes, also on a node without peers: when
\* no other client has sent a request, a download of the file hash of a
\* finished upload, through the node that took the upload, ends with Ok and
\* has written exactly the uploaded bytes.
C4_RoundTrip ==
    (/\ cli.cmd = "download"
     /\ cli.pc = "done"
     /\ rpcLeft = 1
     /\ cli.file_hash \in DOMAIN uploaded
     /\ uploaded[cli.file_hash].node = cli.node) =>
        /\ cli.result = "ok"
        /\ cli.output = <<uploaded[cli.file_hash].data>>

\* the routing table holds the record of the node
Knows(table, n) ==
    \E i \in 1 .. Len(flat_map(table, 0)) : flat_map(table, 0)[i] = NodeRecord(n)

\* the file has been uploaded with Ok at a node other than a whose routing
\* table holds a
UploadedAtPeerOf(a, f) ==
    /\ f \in DOMAIN uploaded
    /\ uploaded[f].node # a
    /\ Knows(tables[uploaded[f].node], a)

\* C27: with two nodes A and B where B has A in its routing table, after an
\* upload of a file at B has ended with Ok the store of A holds the
\* provider record file hash -> address of B; FIND_VALUE(file hash) of a
\* download at A returns the address of B; and that download fetches the
\* metadata and every chunk from B, ends with Ok and has written the
\* uploaded bytes.
C27_AnnounceThenRemoteDownload ==
    \A a \in Nodes, f \in FileHashes :
        UploadedAtPeerOf(a, f) =>
            /\ get_value(dht_values[a], f) = <<node_address(uploaded[f].node)>>
            /\ find_value(dht_values[a], tables[a], f).value
                   = <<node_address(uploaded[f].node)>>
            /\ (cli.cmd = "download" /\ cli.node = a /\ cli.file_hash = f) =>
                   /\ cli.pc \in {"get_metadata", "get_chunks", "done"}
                   /\ cli.provider = node_address(uploaded[f].node)
                   /\ cli.pc = "get_chunks" =>
                          /\ cli.output # <<>>
                          /\ \E k \in 0 .. Len(uploaded[f].data) :
                                 cli.output[1] = SubSeq(uploaded[f].data, 1, k)
                   /\ cli.pc = "done" =>
                          /\ cli.result = "ok"
                          /\ cli.todo_hashes = <<>>
                          /\ cli.output = <<uploaded[f].data>>

\* a file of two chunks uploaded at a node has been downloaded at the peer
\* in its routing table
C27_Witness ==
    /\ cli.cmd = "download" /\ cli.pc = "done" /\ cli.result = "ok"
    /\ UploadedAtPeerOf(cli.node, cli.file_hash)
    /\ Len(uploaded[cli.file_hash].data) > ChunkSize
    /\ cli.output = <<uploaded[cli.file_hash].data>>

\* C28: during a download every chunk received for a chunk hash h is checked
\* against h before it is written: when the provider serves bytes whose
\* digest is not h, the download ends with a failure and the bytes are not
\* appended to the output.
C28_DownloadVerifiesChunks ==
    [][(/\ cli.pc = "get_chunks"
        /\ cli.todo_hashes # <<>>
        /\ cli' # cli
        /\ LET r == serve_get_chunk(chunks[cli.provider], Head(cli.todo_hashes))
           IN  r # <<>> /\ hash(r[1]) # Head(cli.todo_hashes)) =>
            /\ cli'.pc = "done"
            /\ cli'.result = "err"
            /\ cli'.output = cli.output]_vars

\* C29: a download whose FIND_VALUE yields no provider for the file hash
\* ends with a failure and creates no output file.
C29_NotFoundIsFailure ==
    (cli.cmd = "download" /\ cli.pc = "done" /\ cli.provider = NoAddress) =>
        /\ cli.result = "err"
        /\ cli.output = <<>>

\* C30: in the announce phase of an upload a peer of the FIND_NODE response
\* that cannot be reached, or whose STORE fails, does not fail the upload
\* and does not prevent the STORE at the other peers: the upload ends with
\* Ok and every peer of the response that listens has the provider record.
C30_AnnounceIsBestEffort ==
    (cli.cmd = "upload" /\ cli.pc = "done") =>
        LET peers == find_node(tables[cli.node], as_node_id(cli.file_hash))
        IN  /\ cli.result = "ok"
            /\ \A i \in 1 .. Len(peers) :
                  Listening(peers[i].address) =>
                      get_value(dht_values[peers[i].address], cli.file_hash)
                          = <<node_address(cli.node)>>

\* a STORE of the upload has reached a peer
StoreSent == \E n \in Nodes : get_value(dht_values[n], cli.file_hash) # <<>>

\* the chunk hashes of the file of the upload
UploadHashes == hashes_of(data_chunks(cli.data, ChunkSize))

\* C31: in an upload whose stores have succeeded, the metadata is in the
\* store of the node before any chunk is, and no STORE of the provider
\* reaches a peer before the metadata and every chunk are in the store of
\* the node; and when a store of the local phase has failed, no STORE is
\* sent.
C31_UploadOrder ==
    cli.cmd = "upload" =>
        /\ (chunks[cli.node] # EmptyTree /\ ~cli.store_failed) =>
               get_metadata(metadata[cli.node], cli.file_hash) = <<file_info(cli.data)>>
        /\ (StoreSent /\ ~cli.store_failed) =>
               /\ get_metadata(metadata[cli.node], cli.file_hash)
                      = <<file_info(cli.data)>>
               /\ \A i \in 1 .. Len(UploadHashes) :
                      get_chunk(chunks[cli.node], UploadHashes[i]) # <<>>
        /\ cli.store_failed => ~StoreSent

RECURSIVE Concat(_)
Concat(cs) == IF cs = <<>> THEN <<>> ELSE Head(cs) \o Concat(Tail(cs))

\* C32: an upload of n bytes with the chunk size C makes ceil(n / C) chunks:
\* every chunk but the last has C bytes, the last has 1 to C bytes, the
\* chunks in the order of chunk_hashes give the input, size is n, and an
\* empty file has an empty list of chunk hashes; the chunks stored at the
\* node are those chunks under their hashes.
C32_ChunkingCoversInput ==
    (cli.cmd = "upload" /\ get(metadata[cli.node], cli.file_hash) # <<>>) =>
        LET cs == data_chunks(cli.data, ChunkSize)
            n  == Len(cli.data)
            m  == get_metadata(metadata[cli.node], cli.file_hash)[1]
        IN  /\ Len(cs) = (n + ChunkSize - 1) \div ChunkSize
            /\ \A i \in 1 .. Len(cs) - 1 : Len(cs[i]) = ChunkSize
            /\ cs # <<>> => Len(cs[Len(cs)]) \in 1 .. ChunkSize
            /\ Concat(cs) = cli.data
            /\ m.size = n
            /\ m.chunk_hashes = hashes_of(cs)
            /\ n = 0 => m.chunk_hashes = <<>>
            /\ \A h \in DOMAIN chunks[cli.node] :
                  \E i \in 1 .. Len(cs) : h = hash(cs[i]) /\ chunks[cli.node][h] = cs[i]
            /\ (cli.pc = "done" /\ cli.result = "ok") =>
                  \A i \in 1 .. Len(cs) : get_chunk(chunks[cli.node], hash(cs[i])) = <<cs[i]>>

\* a file of one byte more than a chunk has been uploaded
C32_Witness ==
    /\ cli.cmd = "upload" /\ cli.pc = "done" /\ cli.result = "ok"
    /\ Len(cli.data) = ChunkSize + 1
    /\ Cardinality(DOMAIN chunks[cli.node]) = 2

\* what FIND_VALUE(k) at the node n answers
Found(values, routing, n, k) == find_value(values[n], routing[n], k)

\* C33: after any sequence of STORE requests at a node, FIND_VALUE(k) at
\* that node returns the value of the last STORE for k; it returns the
\* closest peers instead of a value exactly when no STORE for k has been
\* handled; and a STORE for one key changes the answer for no other key and
\* no other node.  A response with a value carries the value of the last
\* STORE; a response without one is given for a key that has no value, or
\* by a handler that found none before it waited for the routing table.
C33_LastStoreWins ==
    /\ []((resp.rpc = "find_value" /\ resp.success) =>
            resp.data = get_value(dht_values[resp.node], resp.key))
    /\ [][(/\ (rpcLeft' < rpcLeft) # (fv' # fv)
            /\ resp'.rpc = "find_value" /\ ~resp'.success) =>
            \/ get_value(dht_values'[resp'.node], resp'.key) = <<>>
            \/ \E i \in 1 .. Len(fv[resp'.node]) :
                  fv[resp'.node][i] = resp'.key]_vars
    /\ [](rpcLeft = MaxRpc =>
            \A n \in Nodes, k \in FileHashes :
                Found(dht_values, tables, n, k).value = <<>>)
    /\ [](\A n \in Nodes, k \in FileHashes :
            Found(dht_values, tables, n, k).value = <<>> =>
                Found(dht_values, tables, n, k).peers
                    = find_closest_peers(tables[n], as_node_id(k)))
    /\ [][\A n \in Nodes, k \in FileHashes :
            IF resp'.rpc = "store" /\ resp'.node = n /\ resp'.key = k
            THEN Found(dht_values', tables', n, k)
                     = [value |-> resp'.data, peers |-> <<>>]
            ELSE Found(dht_values', tables', n, k)
                     = Found(dht_values, tables, n, k)]_vars

\* a node has handled a second STORE for a key, with another value
C33_Witness ==
    /\ resp.rpc = "store"
    /\ ~resp.was_absent
    /\ rpcLeft = 0
    /\ get_value(dht_values[resp.node], resp.key) = resp.data
    /\ resp.data # <<NoAddress>>

\* the keyspaces and the routing table of every node are as they were
NodesUnchanged ==
    /\ chunks' = chunks
    /\ metadata' = metadata
    /\ dht_values' = dht_values
    /\ tables' = tables

\* C34: the handlers of FIND_NODE, FIND_VALUE, GET_CHUNK, GET_FILE_METADATA,
\* LIST_PEERS and LIST_FILES leave the routing table and the three
\* keyspaces of every node as they were, whether the key is present or
\* not.  GET_CHUNK answers not found exactly when the chunk keyspace of the
\* node has no entry for the key, GET_FILE_METADATA exactly when the
\* metadata keyspace has none, and FIND_VALUE answers without a value
\* exactly when the value keyspace has none, whatever the other two
\* keyspaces hold.  A FIND_VALUE handler that found no value and waited for
\* the routing table changes nothing while it waits or when it answers, and
\* answers without a value.
C34_ReadHandlersChangeNothing ==
    /\ [][(rpcLeft' < rpcLeft /\ fv' = fv /\ resp'.rpc \in ReadRpcs) =>
            /\ NodesUnchanged
            /\ resp'.rpc = "get_chunk" =>
                   (resp'.success <=> get_chunk(chunks[resp'.node], resp'.key) # <<>>)
            /\ resp'.rpc = "get_file_metadata" =>
                   (resp'.success <=> get(metadata[resp'.node], resp'.key) # <<>>)
            /\ resp'.rpc = "find_value" =>
                   (resp'.success <=> get_value(dht_values[resp'.node], resp'.key) # <<>>)
            /\ (resp'.rpc \in {"get_chunk", "get_file_metadata"}
                    /\ ~resp'.success) => resp'.data = <<>>]_vars
    /\ [][(fv' # fv) =>
            /\ NodesUnchanged
            /\ (rpcLeft' = rpcLeft) =>
                   /\ resp'.rpc = "find_value"
                   /\ ~resp'.success]_vars

\* GET_FILE_METADATA of a key that the node holds as a chunk, and not as
\* metadata, has answered not found, and the chunk is still there
C34_Witness ==
    /\ resp.rpc = "get_file_metadata"
    /\ ~resp.success
    /\ get_chunk(chunks[resp.node], resp.key) # <<>>
    /\ get(metadata[resp.node], resp.key) = <<>>

\* the nodes of the table that find_closest_nodes scanned
RoutingTableNodes == flat_map(rfound.table, 0)

\* C35: find_closest_nodes(target, count) of routing.rs returns the
\* min(count, n) nodes of the table that are closest to the target by XOR
\* distance, in ascending order of distance.
C35_ClosestNodesAscending ==
    rfound.op = "find_closest_nodes" =>
        LET res == rfound.result
            t   == rfound.target
            all == {RoutingTableNodes[i] : i \in 1 .. Len(RoutingTableNodes)}
            got == {res[i] : i \in 1 .. Len(res)}
        IN  /\ Len(res) = IF rfound.count < Cardinality(all)
                           THEN rfound.count ELSE Cardinality(all)
            /\ Cardinality(got) = Len(res)
            /\ got \subseteq all
            /\ \A a \in got, b \in all \ got :
                  routing_xor_distance(a.id, t) <= routing_xor_distance(b.id, t)
            /\ \A i, j \in 1 .. Len(res) :
                  i < j => routing_xor_distance(res[i].id, t)
                              <= routing_xor_distance(res[j].id, t)

\* the queried peers that answered with a list naming the peer
Listing(id) ==
    {a \in lk.queried_peers :
        /\ Answers(net, a)
        /\ \E k \in 1 .. Len(net.knows[a]) : net.knows[a][k] = id}

\* C36: within one lookup no peer is queried more than once, over all the
\* waves, however many replies list the peer and whether or not its first
\* query failed.
C36_NoPeerQueriedTwice ==
    \A i, j \in 1 .. Len(lk.sent) : lk.sent[i] = lk.sent[j] => i = j

\* a lookup of several waves is over; a peer whose query failed was listed
\* by the replies of two peers queried after it
C36_Witness ==
    /\ lk.pc = "done"
    /\ lk.waves >= 2
    /\ \E id \in lk.queried_peers :
          /\ ~Answers(net, address_of(id))
          /\ Cardinality(Listing(id)) >= 2

\* C37: the PING that a node sends as liveness probe for a full bucket
\* carries the record of the sending node, not the record of the peer that
\* is pinged.
C37_PingCarriesSender ==
    inflight # NoCall =>
        ping_peer_request(inflight.probed).peer = Peer(LocalId)

\* every node is inside add_peer for a new peer of a full bucket and waits
\* for the answer to the liveness PING that it has sent to another node
ProbingEachOther ==
    \A n \in Nodes :
        /\ ph.adder[n].pc = "probing"
        /\ ph.call[ph.adder[n].handler].node # n

C39_InitiatorNeitherQueriedNorReturned ==
    /\ \A i \in 1 .. Len(lk.sent) : lk.sent[i] # LocalId
    /\ \A i \in 1 .. Len(lk.returned) : lk.returned[i].node_id # LocalId

=============================================================================
